---- MODULE Spec2Model ----
(***************************************************************************)
(* A model of qzda/epub-generate (src/src/App.vue): the chapter            *)
(* segmentation loop of generateEpub, the streaming line reader            *)
(* readFileLinesWithEncoding, the encoding sniffer detectEncoding and the  *)
(* EPUB packaging steps of generateEpub.                                   *)
(*                                                                         *)
(* Text is a sequence of one-character strings (segmentation) or of code   *)
(* points (line reader); bytes are integers 0..255.  Each component has    *)
(* its own variables and its own specification; a specification keeps the  *)
(* other components' variables at their initial values.                    *)
(***************************************************************************)
EXTENDS Integers, Sequences, FiniteSets, TLC

VARIABLES
  \* ---- segmentation loop of generateEpub (App.vue 181-222)
  lines,           \* the line sequence produced by fileReader
  pattern,         \* regex.value, the compiled boundary pattern
  lineIdx,         \* number of lines the for-await loop has consumed
  chapters,        \* const chapters: Chapter[]
  currentChapter,  \* let currentChapter: Chapter | null  (<<>> is null)
  origins,         \* history: for each pushed chapter, the index of the line
                   \* that opened it (0 for the implicit preface)
  curOrigin,       \* history: the same for currentChapter
  segPc,           \* "loop" | "done"
  \* ---- readFileLinesWithEncoding (App.vue 82-113)
  rdBytes,         \* the bytes of file
  rdEnc,           \* encoding
  chunkSize,       \* const chunkSize
  offset,          \* let offset
  buffer,          \* let buffer: decoded text not yet split into lines
  pending,         \* the bytes the TextDecoder holds back (stream: true)
  yielded,         \* the lines yielded so far
  chunkReads,      \* history: the number of chunks read from file
  rdPc,            \* "new" | "loop" | "done" | "error"
  \* ---- detectEncoding (App.vue 32-79)
  detFile,         \* the bytes of file, as runs of equal bytes
  detI,            \* let i of the scan loop
  gbkLikeCount,    \* let gbkLikeCount
  asciiCount,      \* let asciiCount
  maxRead,         \* history: the largest index of bytes read so far (-1: none)
  detResult,       \* the returned encoding ("" before the return)
  detPc,           \* "bom" | "scan" | "done"
  \* ---- EPUB packaging of generateEpub (App.vue 229-358)
  pkChapters,      \* chapters, as the segmentation left them
  bookTitle,       \* bookTitle.value
  bookAuthor,      \* bookAuthor.value
  fileName,        \* file.value.name
  clock,           \* the time Date.now() last returned
  zip,             \* the JSZip instance: its file entries, in insertion order
  pkI,             \* the index i of chapters.forEach
  downloads,       \* the archives handed to the browser by a.click()
  pkPc,            \* the next packaging step, "done" after the download
  \* ---- the component's refs and its handlers in flight (App.vue 10-29,
  \*      115-178, 219-227, 348-364)
  file,            \* file.value (<<>> is undefined)
  previewLines,    \* lines.value
  regexText,       \* regexText.value ("" is undefined or empty)
  matchedChapters, \* matchedChapters.value
  isGenerating,    \* isGenerating.value
  encoding,        \* encoding.value
  bookTitleText,   \* bookTitle.value, the ref behind the title input
  previews,        \* the preview passes started so far, each an onFileChange
                   \* or onEncodingChange call with its generator
  timers,          \* the setTimeout callbacks of onFileChange not yet run
  gen,             \* the generateEpub call in flight with its generator
                   \* (<<>>: none)
  alerts,          \* the alert() calls so far: "empty" | "success" | "failed"
  picks,           \* history: the change events of the file input so far
  lastPick,        \* history: the file of the last change event
  genCalls,        \* history: the generateEpub calls so far
  attempt          \* history of the last generateEpub call

segVars == <<lines, pattern, lineIdx, chapters, currentChapter, origins,
             curOrigin, segPc>>

rdVars == <<rdBytes, rdEnc, chunkSize, offset, buffer, pending, yielded,
            chunkReads, rdPc>>

detVars == <<detFile, detI, gbkLikeCount, asciiCount, maxRead, detResult, detPc>>

pkVars == <<pkChapters, bookTitle, bookAuthor, fileName, clock, zip, pkI,
            downloads, pkPc>>

appVars == <<file, previewLines, regexText, matchedChapters, isGenerating,
             encoding, bookTitleText, previews, timers, gen, alerts, picks,
             lastPick, genCalls, attempt>>

vars == <<segVars, rdVars, detVars, pkVars, appVars>>

\* ------------------------------------------------------------ bounds ----

\* The chunk size of the passes of the component, in bytes (64 * 1024 in the
\* source): small, so that files of a few bytes take several chunk reads.
PassChunkSize == 2

\* The most change events of the file input in one behaviour.
MaxPicks == 2

\* The most preview passes in one behaviour.
MaxPreviews == 2

\* The most generateEpub calls in one behaviour.
MaxCalls == 1

\* Longest line sequence fed to the segmentation loop.
MaxLines == 3

\* Longest byte source fed to the line reader.
MaxBytes == 4

\* Largest chunk size of the line reader (the source reads 64 KiB chunks; the
\* model reads chunks of 1..MaxChunk bytes from sources of a few bytes).
MaxChunk == 4

\* Most runs of equal bytes in a source given to detectEncoding.
MaxRuns == 3

\* Most chapters handed to the packaging steps.
MaxPackChapters == 2

\* Latest time Date.now() returns during one packaging (the first is 0).
MaxTime == 1

\* --------------------------------------------------------- sequences ----

SeqsUpTo(S, n) == UNION {[1..k -> S] : k \in 0..n}

Last(s) == s[Len(s)]

Front(s) == SubSeq(s, 1, Len(s) - 1)

RECURSIVE Flatten(_)
Flatten(ss) == IF ss = <<>> THEN <<>> ELSE Head(ss) \o Flatten(Tail(ss))

\* ============================================================================
\* Chapter segmentation (generateEpub, App.vue 181-222)
\* ============================================================================

\* Characters of the modelled lines: whitespace, an ordinary character and a
\* character the boundary patterns look for.
IsSpace(c) == c = " "

RECURSIVE TrimStart(_)
TrimStart(s) ==
  IF s # <<>> /\ IsSpace(Head(s)) THEN TrimStart(Tail(s)) ELSE s

RECURSIVE TrimEnd(_)
TrimEnd(s) ==
  IF s # <<>> /\ IsSpace(Last(s)) THEN TrimEnd(Front(s)) ELSE s

\* String.prototype.trim
Trim(s) == TrimEnd(TrimStart(s))

\* The lines the model feeds to the loop: empty, blank, with and without
\* surrounding whitespace, with the boundary character at the start, in the
\* middle and after leading whitespace.
LineTexts ==
  { <<>>, <<" ">>, <<"a">>, <<" ", "a">>, <<"a", " ">>,
    <<"m">>, <<" ", "m">>, <<"m", "a">>, <<"a", "m">> }

\* The boundary patterns: /m/ (a match anywhere in the line), /^m/ (anchored
\* by the pattern itself) and /^\s*$/ (a pattern that matches blank lines).
Patterns == { "m", "^m", "^\\s*$" }

\* line.match(regex.value) is not null
Matches(line, pat) ==
  CASE pat = "m" -> \E i \in 1..Len(line) : line[i] = "m"
    [] pat = "^m" -> line # <<>> /\ line[1] = "m"
    [] pat = "^\\s*$" -> \A i \in 1..Len(line) : IsSpace(line[i])

\* The title of the implicit first chapter, "\u5e8f\u8a00" (preface) in the
\* source; no modelled line trims to it.
PrefaceTitle == <<"preface">>

\* The push without its content.length > 0 test.
PushAlways(chs, cur) == IF cur # <<>> THEN Append(chs, cur[1]) ELSE chs

\* if (currentChapter && currentChapter.content.length > 0)
\*   chapters.push(currentChapter)
PushIfNonEmpty(chs, cur) ==
  IF cur # <<>> /\ Len(cur[1].content) > 0 THEN Append(chs, cur[1]) ELSE chs

\* The append storing line.trim() instead of line.
AppendTrimmed(cur, line) ==
  IF Trim(line) # <<>>
  THEN [cur EXCEPT !.content = Append(@, Trim(line))]
  ELSE cur

\* The append without its line.trim() test.
AppendBlankToo(cur, line) == [cur EXCEPT !.content = Append(@, line)]

\* if (line.trim()) currentChapter.content.push(line)
AppendContent(cur, line) ==
  IF Trim(line) # <<>>
  THEN [cur EXCEPT !.content = Append(@, line)]
  ELSE cur

\* The new chapter titled with the untrimmed line.
NewChapterRaw(line) == [title |-> line, content |-> <<>>]

\* currentChapter = { title: line.trim(), content: [] }
NewChapter(line) == [title |-> Trim(line), content |-> <<>>]

SegInit ==
  /\ lines \in SeqsUpTo(LineTexts, MaxLines)
  /\ pattern \in Patterns
  /\ lineIdx = 0
  /\ chapters = <<>>
  /\ currentChapter = <<>>
  /\ origins = <<>>
  /\ curOrigin = 0
  /\ segPc = "loop"

\* The component at rest, for the specifications of the other components.
SegIdle ==
  /\ lines = <<>>
  /\ pattern = "m"
  /\ lineIdx = 0
  /\ chapters = <<>>
  /\ currentChapter = <<>>
  /\ origins = <<>>
  /\ curOrigin = 0
  /\ segPc = "done"

\* The history variable follows the push: a chapter was pushed exactly when
\* the list grew.
OriginsAfter(chs) ==
  IF Len(chs) > Len(chapters) THEN Append(origins, curOrigin) ELSE origins

\* if (match) { ... }
SegMatch ==
  /\ segPc = "loop"
  /\ lineIdx < Len(lines)
  /\ LET line == lines[lineIdx + 1]
         chs == PushIfNonEmpty(chapters, currentChapter)
     IN /\ Matches(line, pattern)
        /\ chapters' = chs
        /\ origins' = OriginsAfter(chs)
        /\ currentChapter' = <<NewChapter(line)>>
        /\ curOrigin' = lineIdx + 1
  /\ lineIdx' = lineIdx + 1
  /\ UNCHANGED <<lines, pattern, segPc>>
  /\ UNCHANGED <<rdVars, detVars, pkVars, appVars>>

\* else if (currentChapter) { ... }
SegAppend ==
  /\ segPc = "loop"
  /\ lineIdx < Len(lines)
  /\ LET line == lines[lineIdx + 1]
     IN /\ ~Matches(line, pattern)
        /\ currentChapter # <<>>
        /\ currentChapter' = <<AppendContent(currentChapter[1], line)>>
  /\ lineIdx' = lineIdx + 1
  /\ UNCHANGED <<lines, pattern, chapters, origins, curOrigin, segPc>>
  /\ UNCHANGED <<rdVars, detVars, pkVars, appVars>>

\* else { currentChapter = { title: preface, content: [] }; ... }
SegPreface ==
  /\ segPc = "loop"
  /\ lineIdx < Len(lines)
  /\ LET line == lines[lineIdx + 1]
     IN /\ ~Matches(line, pattern)
        /\ currentChapter = <<>>
        /\ currentChapter' =
             <<AppendContent([title |-> PrefaceTitle, content |-> <<>>], line)>>
        /\ curOrigin' = 0
  /\ lineIdx' = lineIdx + 1
  /\ UNCHANGED <<lines, pattern, chapters, origins, segPc>>
  /\ UNCHANGED <<rdVars, detVars, pkVars, appVars>>

\* after the loop: if (currentChapter && currentChapter.content.length > 0) push
SegFinish ==
  /\ segPc = "loop"
  /\ lineIdx = Len(lines)
  /\ LET chs == PushIfNonEmpty(chapters, currentChapter)
     IN /\ chapters' = chs
        /\ origins' = OriginsAfter(chs)
  /\ segPc' = "done"
  /\ UNCHANGED <<lines, pattern, lineIdx, currentChapter, curOrigin>>
  /\ UNCHANGED <<rdVars, detVars, pkVars, appVars>>

SegNext == SegMatch \/ SegAppend \/ SegPreface \/ SegFinish

\* ------------------------------------------- segmentation: properties ----

Max(S) == CHOOSE x \in S : \A y \in S : y <= x

Min(S) == CHOOSE x \in S : \A y \in S : x <= y

\* The elements of a finite set of integers in ascending order.
RECURSIVE Asc(_)
Asc(S) == IF S = {} THEN <<>> ELSE <<Min(S)>> \o Asc(S \ {Min(S)})

Range(s) == {s[i] : i \in DOMAIN s}

NonBlank(line) == Trim(line) # <<>>

\* The indexes of the lines that match the pattern.
MatchIdx == {i \in 1..Len(lines) : Matches(lines[i], pattern)}

\* Line j does not match and is not blank.
IsContentLine(j) == ~Matches(lines[j], pattern) /\ NonBlank(lines[j])

\* The nearest matching line before line j, 0 when there is none.
OpenerOf(j) ==
  LET before == {i \in MatchIdx : i < j}
  IN IF before = {} THEN 0 ELSE Max(before)

\* The content lines between opener o (0: the start) and the next matching
\* line, in source order.
BodyOf(o) ==
  LET idx == Asc({j \in 1..Len(lines) : IsContentLine(j) /\ OpenerOf(j) = o})
  IN [k \in 1..Len(idx) |-> lines[idx[k]]]

\* Every content line of the source, in source order.
BodyOfAll ==
  LET idx == Asc({j \in 1..Len(lines) : IsContentLine(j)})
  IN [k \in 1..Len(idx) |-> lines[idx[k]]]

\* The content lines of the output, chapter after chapter.
AllContent == Flatten([k \in 1..Len(chapters) |-> chapters[k].content])

\* C1: at every point of the loop, every chapter of the chapter list has at
\* least one content line and none of its content lines is blank.
C1_ChaptersNonEmpty ==
  \A k \in 1..Len(chapters) :
    /\ Len(chapters[k].content) >= 1
    /\ \A i \in 1..Len(chapters[k].content) : NonBlank(chapters[k].content[i])

\* A heading that was dropped for having no content, beside a kept chapter.
C1_Witness ==
  /\ segPc = "done"
  /\ Len(chapters) >= 1
  /\ \E i \in MatchIdx : i \notin Range(origins)

\* C2: at the end of the stream the non-matching non-blank lines are, each
\* once and in source order, the content of the output; each lies in the
\* chapter opened by the nearest matching line before it (the preface when
\* there is none), and no content line matches the pattern or is blank.
C2_ContentPlacement ==
  segPc = "done" =>
    /\ AllContent = BodyOfAll
    /\ \A k \in 1..Len(chapters) :
         /\ chapters[k].content = BodyOf(origins[k])
         /\ chapters[k].title =
              IF origins[k] = 0 THEN PrefaceTitle ELSE Trim(lines[origins[k]])
    /\ \A i \in 1..Len(AllContent) :
         ~Matches(AllContent[i], pattern) /\ NonBlank(AllContent[i])

\* A preface with content followed by a chapter with content.
C2_Witness ==
  /\ segPc = "done"
  /\ Len(chapters) = 2
  /\ origins[1] = 0
  /\ \E j \in 1..Len(lines) : ~NonBlank(lines[j])

\* Some non-matching non-blank line comes before every matching line.
HasPrefaceContent == \E j \in 1..Len(lines) : IsContentLine(j) /\ OpenerOf(j) = 0

\* C3: the chapter titles are trimmed texts of matching lines, in source
\* order, except that the first chapter is the preface exactly when a
\* non-blank non-matching line precedes the first matching line (or the end
\* of a stream without matching line); the preface is never at a later place.
C3_Titles ==
  segPc = "done" =>
    /\ \A k \in 1..Len(chapters) :
         IF origins[k] = 0
         THEN k = 1 /\ chapters[k].title = PrefaceTitle
         ELSE /\ origins[k] \in MatchIdx
              /\ chapters[k].title = Trim(lines[origins[k]])
    /\ \A k \in 1..Len(chapters) : \A n \in 1..Len(chapters) :
         k < n => origins[k] < origins[n]
    /\ HasPrefaceContent <=> (chapters # <<>> /\ origins[1] = 0)

\* A preface followed by a chapter whose heading had surrounding whitespace.
C3_Witness ==
  /\ segPc = "done"
  /\ pattern = "m"
  /\ Len(chapters) >= 2
  /\ origins[1] = 0
  /\ lines[origins[2]] # Trim(lines[origins[2]])

C5_ContentTrimmed ==
  \A k \in 1..Len(chapters) :
    \A i \in 1..Len(chapters[k].content) :
      Trim(chapters[k].content[i]) = chapters[k].content[i]

\* C5, amended: every content line is a line of the source as it was read,
\* surrounding whitespace included; only its trimmed form is non-empty.
C5_ContentVerbatim ==
  \A k \in 1..Len(chapters) :
    \A i \in 1..Len(chapters[k].content) :
      /\ NonBlank(chapters[k].content[i])
      /\ \E j \in 1..lineIdx : lines[j] = chapters[k].content[i]

\* A stored content line that still has its surrounding whitespace.
C5_Witness ==
  \E k \in 1..Len(chapters) :
    \E i \in 1..Len(chapters[k].content) :
      Trim(chapters[k].content[i]) # chapters[k].content[i]

\* ============================================================================
\* Line reader (readFileLinesWithEncoding, App.vue 82-113)
\* ============================================================================

\* The bytes of the modelled sources: NUL, "\n", "\r", "a", and 0xC3 0xA9,
\* which is one two-byte character in utf-8 and in gbk.
RdBytes == {0, 10, 13, 97, 195, 169}

\* The encodings of the modelled passes: a variable-length encoding, a
\* fixed-width one and a double-byte one whose trail bytes overlap ASCII.
RdEncodings == {"utf-8", "utf-16le", "gbk"}

LF == 10

CR == 13

\* U+FFFD, what a non-fatal TextDecoder emits for a malformed sequence.
Replacement == 65533

\* The code point of a two-byte gbk sequence: the index table of the encoding
\* is modelled as an injective map into code points outside the other ranges.
GbkPoint(lead, trail) == 65536 + lead * 256 + trail

\* TextDecoder("utf-8"): one- and two-byte forms (the modelled bytes hold no
\* lead byte of a longer form).  [text, pending] of decoding bs.
RECURSIVE Utf8Decode(_)
Utf8Decode(bs) ==
  IF bs = <<>> THEN [text |-> <<>>, pending |-> <<>>]
  ELSE LET b == Head(bs)
           rest == Tail(bs)
           Emit(cp, more) ==
             LET r == Utf8Decode(more)
             IN [text |-> <<cp>> \o r.text, pending |-> r.pending]
       IN IF b < 128 THEN Emit(b, rest)
          ELSE IF b >= 194 /\ b <= 223
          THEN IF rest = <<>> THEN [text |-> <<>>, pending |-> <<b>>]
               ELSE IF Head(rest) >= 128 /\ Head(rest) <= 191
               THEN Emit((b - 192) * 64 + (Head(rest) - 128), Tail(rest))
               ELSE Emit(Replacement, rest)
          ELSE Emit(Replacement, rest)

\* TextDecoder("utf-16le"): two bytes make one code unit (the modelled bytes
\* make no surrogate).
RECURSIVE Utf16leDecode(_)
Utf16leDecode(bs) ==
  IF bs = <<>> THEN [text |-> <<>>, pending |-> <<>>]
  ELSE IF Len(bs) = 1 THEN [text |-> <<>>, pending |-> bs]
  ELSE LET r == Utf16leDecode(Tail(Tail(bs)))
       IN [text |-> <<bs[1] + 256 * bs[2]>> \o r.text, pending |-> r.pending]

\* TextDecoder("gbk"): an ASCII byte is itself; a lead byte 0x81..0xFE takes a
\* trail byte 0x40..0x7E or 0x80..0xFE; after a lead byte any other byte is an
\* error, and an ASCII byte is then decoded again on its own.
RECURSIVE GbkDecode(_)
GbkDecode(bs) ==
  IF bs = <<>> THEN [text |-> <<>>, pending |-> <<>>]
  ELSE LET b == Head(bs)
           rest == Tail(bs)
           Emit(cp, more) ==
             LET r == GbkDecode(more)
             IN [text |-> <<cp>> \o r.text, pending |-> r.pending]
       IN IF b < 128 THEN Emit(b, rest)
          ELSE IF b = 128 THEN Emit(8364, rest)
          ELSE IF b = 255 THEN Emit(Replacement, rest)
          ELSE IF rest = <<>> THEN [text |-> <<>>, pending |-> <<b>>]
          ELSE LET t == Head(rest)
               IN IF (t >= 64 /\ t <= 126) \/ (t >= 128 /\ t <= 254)
                  THEN Emit(GbkPoint(b, t), Tail(rest))
                  ELSE IF t < 128 THEN Emit(Replacement, rest)
                  ELSE Emit(Replacement, Tail(rest))

DecodeBytes(enc, bs) ==
  CASE enc = "utf-8" -> Utf8Decode(bs)
    [] enc = "utf-16le" -> Utf16leDecode(bs)
    [] enc = "gbk" -> GbkDecode(bs)

\* decoder.decode(arrayBuffer) without stream: true: what the decoder holds back
\* at the end of the chunk is emitted as U+FFFD and forgotten.
DecodeNoStream(enc, pend, chunk) ==
  LET d == DecodeBytes(enc, chunk)
  IN [text |-> d.text \o (IF d.pending = <<>> THEN <<>> ELSE <<Replacement>>),
      pending |-> <<>>]

\* decoder.decode(arrayBuffer, { stream: true }): the bytes held back by the
\* previous call come first; an incomplete last sequence is held back.
DecodeStream(enc, pend, chunk) == DecodeBytes(enc, pend \o chunk)

\* text.split("\n")
RECURSIVE SplitLF(_)
SplitLF(t) ==
  IF \A i \in 1..Len(t) : t[i] # LF THEN <<t>>
  ELSE LET i == Min({k \in 1..Len(t) : t[k] = LF})
       IN <<SubSeq(t, 1, i - 1)>> \o SplitLF(SubSeq(t, i + 1, Len(t)))

\* line.replace(/\r/g, ""): every "\r" of the line removed.
StripAllCR(line) == SelectSeq(line, LAMBDA c : c # CR)

\* line.replace(/\r$/, "")
StripCR(line) ==
  IF line # <<>> /\ Last(line) = CR THEN Front(line) ELSE line

StripEach(ls) == [k \in 1..Len(ls) |-> StripCR(ls[k])]

\* new TextDecoder(label) with any label: no RangeError.
AcceptsEveryLabel(label) == TRUE

\* new TextDecoder(label) returns a decoder: the label is one the Encoding
\* Standard knows.  Of the identifiers the program has, those of the
\* <select> (App.vue 458-464) are labels and "auto" (App.vue 29) is not.
TextDecoderAccepts(label) ==
  label \in {"utf-8", "gbk", "big5", "shift-jis", "euc-kr", "utf-16le",
             "utf-16be"}

\* The state at the first next() of the generator: nothing has run yet.
RdInit ==
  /\ rdBytes \in SeqsUpTo(RdBytes, MaxBytes)
  /\ rdEnc \in RdEncodings \cup {"auto"}
  /\ chunkSize \in 1..MaxChunk
  /\ offset = 0
  /\ buffer = <<>>
  /\ pending = <<>>
  /\ yielded = <<>>
  /\ chunkReads = 0
  /\ rdPc = "new"

RdIdle ==
  /\ rdBytes = <<>>
  /\ rdEnc = "utf-8"
  /\ chunkSize = 1
  /\ offset = 0
  /\ buffer = <<>>
  /\ pending = <<>>
  /\ yielded = <<>>
  /\ chunkReads = 0
  /\ rdPc = "done"

\* const decoder = new TextDecoder(encoding); const chunkSize = ...; let
\* buffer = ""; let offset = 0.  A RangeError ends the generator.
ReadConstruct ==
  /\ rdPc = "new"
  /\ rdPc' = IF TextDecoderAccepts(rdEnc) THEN "loop" ELSE "error"
  /\ UNCHANGED <<rdBytes, rdEnc, chunkSize, offset, buffer, pending, yielded,
                 chunkReads>>
  /\ UNCHANGED <<segVars, detVars, pkVars, appVars>>

\* One pass of  while (offset < file.size) { ... }
ReadChunk ==
  /\ rdPc = "loop"
  /\ offset < Len(rdBytes)
  /\ LET chunk == SubSeq(rdBytes, offset + 1,
                         IF offset + chunkSize < Len(rdBytes)
                         THEN offset + chunkSize ELSE Len(rdBytes))
         d == DecodeStream(rdEnc, pending, chunk)
         parts == SplitLF(buffer \o d.text)
     IN /\ pending' = d.pending
        /\ buffer' = Last(parts)
        /\ yielded' = yielded \o StripEach(Front(parts))
  /\ offset' = offset + chunkSize
  /\ chunkReads' = chunkReads + 1
  /\ UNCHANGED <<rdBytes, rdEnc, chunkSize, rdPc>>
  /\ UNCHANGED <<segVars, detVars, pkVars, appVars>>

\* After the loop:  if (buffer) { for (const line of buffer.split("\n")) yield }
ReadTail ==
  /\ rdPc = "loop"
  /\ offset >= Len(rdBytes)
  /\ yielded' = IF buffer # <<>>
                THEN yielded \o StripEach(SplitLF(buffer))
                ELSE yielded
  /\ rdPc' = "done"
  /\ UNCHANGED <<rdBytes, rdEnc, chunkSize, offset, buffer, pending,
                 chunkReads>>
  /\ UNCHANGED <<segVars, detVars, pkVars, appVars>>

RdNext == ReadConstruct \/ ReadChunk \/ ReadTail

\* ------------------------------------------- line reader: properties ----

\* The lines of one pass that reads the whole source as a single chunk.
SingleChunkLines ==
  LET d == DecodeStream(rdEnc, <<>>, rdBytes)
      parts == SplitLF(d.text)
  IN StripEach(Front(parts))
       \o (IF Last(parts) # <<>> THEN StripEach(SplitLF(Last(parts))) ELSE <<>>)

\* Some chunk ends at byte i without ending the source.
ChunkEndsAt(i) == i < Len(rdBytes) /\ i % chunkSize = 0

\* C6: for every source, encoding and chunk size, the lines yielded by the
\* pass are those of a pass that reads the source as one chunk.
C6_ChunkInvariance == rdPc = "done" => yielded = SingleChunkLines

\* A pass in which one chunk boundary fell inside a two-byte character and
\* another between "\r" and "\n".
C6_Witness ==
  /\ rdPc = "done"
  /\ rdEnc \in {"utf-8", "gbk"}
  /\ \E i \in 1..Len(rdBytes) - 1 :
       rdBytes[i] = 195 /\ rdBytes[i + 1] = 169 /\ ChunkEndsAt(i)
  /\ \E i \in 1..Len(rdBytes) - 1 :
       rdBytes[i] = CR /\ rdBytes[i + 1] = LF /\ ChunkEndsAt(i)
  /\ Len(yielded) = 1

\* The whole source decoded in one call, and whether it ends on a character
\* boundary (it is the encoding of a text).
DecodedText == DecodeStream(rdEnc, <<>>, rdBytes).text

EndsOnCharacter == DecodeStream(rdEnc, <<>>, rdBytes).pending = <<>>

\* lines.join("\n")
RECURSIVE JoinLF(_)
JoinLF(ls) ==
  IF ls = <<>> THEN <<>>
  ELSE IF Len(ls) = 1 THEN ls[1]
  ELSE ls[1] \o <<LF>> \o JoinLF(Tail(ls))

\* The text without the "\r" that ends each of its lines: a "\r" right before
\* a "\n" or at the end of the text.
RECURSIVE StripLineCRs(_)
StripLineCRs(t) ==
  IF t = <<>> THEN <<>>
  ELSE IF Head(t) = CR /\ (Len(t) = 1 \/ t[2] = LF) THEN StripLineCRs(Tail(t))
  ELSE <<Head(t)>> \o StripLineCRs(Tail(t))

\* The text without its last character when that is "\n".
DropFinalLF(t) == IF t # <<>> /\ Last(t) = LF THEN Front(t) ELSE t

\* C7 as stated: the yielded lines joined with "\n" are the decoded text with
\* only the trailing "\r" of each line removed.
C7_JoinReconstructs ==
  (rdPc = "done" /\ EndsOnCharacter) =>
    JoinLF(yielded) = StripLineCRs(DecodedText)

\* C7, amended: the yielded lines joined with "\n" are the decoded text
\* without one final "\n", if it ends with one, and without the trailing "\r"
\* of each line.
C7_JoinReconstructsUpToFinalLF ==
  (rdPc = "done" /\ EndsOnCharacter) =>
    JoinLF(yielded) = StripLineCRs(DropFinalLF(DecodedText))

\* A text of several chunks that ends with "\n" and has a "\r" inside a line.
C7_Witness ==
  /\ rdPc = "done"
  /\ EndsOnCharacter
  /\ chunkSize < Len(rdBytes)
  /\ DecodedText # <<>> /\ Last(DecodedText) = LF
  /\ \E i \in 1..Len(DecodedText) - 1 :
       DecodedText[i] = CR /\ DecodedText[i + 1] # LF
  /\ Len(yielded) >= 1

\* decoder.decode() at the end of the source: an incomplete sequence left in
\* the decoder comes out as one U+FFFD.
FlushText(pend) == IF pend # <<>> THEN <<Replacement>> ELSE <<>>

\* The lines of the source when the decoder is flushed at its end: the
\* decoded text and the flushed text, split at "\n", a last piece only when
\* it is not empty.
FlushedLines ==
  LET d == DecodeStream(rdEnc, <<>>, rdBytes)
      parts == SplitLF(d.text \o FlushText(d.pending))
  IN StripEach(Front(parts))
       \o (IF Last(parts) # <<>> THEN <<StripCR(Last(parts))>> ELSE <<>>)

\* C22: after the source is exhausted the decoder is flushed: when the source
\* ends inside an incomplete multi-byte sequence the pending bytes become
\* decoded text (U+FFFD) at the end of the last yielded line, and are not
\* dropped.
C22_FlushedAtEnd ==
  (rdPc = "done" /\ ~EndsOnCharacter) =>
    /\ yielded = FlushedLines
    /\ yielded # <<>>
    /\ Last(yielded) # <<>>
    /\ Last(Last(yielded)) = Replacement

\* What does hold at the end of such a source: the bytes of the incomplete
\* sequence are still in the decoder and no yielded line has their text.
C22_PendingDropped ==
  (rdPc = "done" /\ ~EndsOnCharacter) =>
    /\ pending # <<>>
    /\ pending = DecodeStream(rdEnc, <<>>, rdBytes).pending
    /\ yielded = SingleChunkLines
    /\ yielded # FlushedLines

\* ============================================================================
\* Encoding detection (detectEncoding, App.vue 32-79)
\* ============================================================================

\* file.slice(0, 4096)
SliceLimit == 4096

\* Math.min(bytes.length - 1, 1000)
ScanLimit == 1000

\* What reading a Uint8Array past its end gives (undefined): a value for which
\* every comparison of the function is false.
Undefined == 999

\* The bytes of the modelled sources: the BOM bytes 0xEF 0xBB 0xBF 0xFE (each
\* also a gbk lead and trail byte), 0xFF (neither ASCII nor a lead byte),
\* "0" (ASCII below the trail range) and "A" (ASCII inside the trail range).
DetBytes == {239, 187, 191, 254, 255, 48, 65}

\* A source is a sequence of runs [b, n]: byte b repeated n times.  Single
\* bytes, 11 lead bytes (five pairs and one byte), 60 ASCII bytes, and 989
\* filler bytes (to reach the scan limit).
Runs ==
  {[b |-> b, n |-> 1] : b \in DetBytes}
    \cup {[b |-> 239, n |-> 11], [b |-> 65, n |-> 60], [b |-> 255, n |-> 989]}

RECURSIVE SrcLen(_)
SrcLen(src) == IF src = <<>> THEN 0 ELSE src[1].n + SrcLen(Tail(src))

\* bytes.length
BytesLen(src) == IF SrcLen(src) < SliceLimit THEN SrcLen(src) ELSE SliceLimit

RECURSIVE RunByte(_, _)
RunByte(src, i) ==
  IF i < src[1].n THEN src[1].b ELSE RunByte(Tail(src), i - src[1].n)

\* bytes[i]
ByteAt(src, i) == IF i >= 0 /\ i < BytesLen(src) THEN RunByte(src, i) ELSE Undefined

\* The three BOM tests with the two UTF-16 results exchanged.
BomOfSwapped(src) ==
  IF BytesLen(src) >= 3 /\ ByteAt(src, 0) = 239 /\ ByteAt(src, 1) = 187
     /\ ByteAt(src, 2) = 191
  THEN "utf-8"
  ELSE IF BytesLen(src) >= 2 /\ ByteAt(src, 0) = 255 /\ ByteAt(src, 1) = 254
  THEN "utf-16be"
  ELSE IF BytesLen(src) >= 2 /\ ByteAt(src, 0) = 254 /\ ByteAt(src, 1) = 255
  THEN "utf-16le"
  ELSE ""

\* The three BOM tests, in the order of the source; "" when none applies.
BomOf(src) ==
  IF BytesLen(src) >= 3 /\ ByteAt(src, 0) = 239 /\ ByteAt(src, 1) = 187
     /\ ByteAt(src, 2) = 191
  THEN "utf-8"
  ELSE IF BytesLen(src) >= 2 /\ ByteAt(src, 0) = 255 /\ ByteAt(src, 1) = 254
  THEN "utf-16le"
  ELSE IF BytesLen(src) >= 2 /\ ByteAt(src, 0) = 254 /\ ByteAt(src, 1) = 255
  THEN "utf-16be"
  ELSE ""

\* The index of the last byte the BOM tests read (-1: none): each test reads
\* bytes only after its length test.
BomReads(src) ==
  IF BytesLen(src) >= 3 THEN 2 ELSE IF BytesLen(src) >= 2 THEN 1 ELSE -1

\* The loop bound without the step back for the lookahead.
ScanBoundNoLookahead(src) ==
  IF BytesLen(src) < ScanLimit THEN BytesLen(src) ELSE ScanLimit

\* Math.min(bytes.length - 1, 1000)
ScanBound(src) ==
  IF BytesLen(src) - 1 < ScanLimit THEN BytesLen(src) - 1 ELSE ScanLimit

\* bytes[i] < 0x80
IsAscii(b) == b < 128

\* bytes[i] >= 0x81 && bytes[i] <= 0xfe
IsLead(b) == b >= 129 /\ b <= 254

\* bytes[i + 1] >= 0x40 && bytes[i + 1] <= 0xfe
IsTrail(b) == b >= 64 /\ b <= 254

\* The verdict with >= 5 in place of > 5.
VerdictAtLeast5(gbk, ascii) ==
  IF gbk >= 5 /\ gbk * 10 > ascii THEN "gbk" ELSE "utf-8"

\* if (gbkLikeCount > 5 && gbkLikeCount > asciiCount * 0.1) return "gbk";
\* return "utf-8".  (g > a * 0.1 and 10 * g > a agree for the integers below
\* 4096, also in double arithmetic.)
Verdict(gbk, ascii) ==
  IF gbk > 5 /\ gbk * 10 > ascii THEN "gbk" ELSE "utf-8"

DetInit ==
  /\ detFile \in SeqsUpTo(Runs, MaxRuns)
  /\ detI = 0
  /\ gbkLikeCount = 0
  /\ asciiCount = 0
  /\ maxRead = -1
  /\ detResult = ""
  /\ detPc = "bom"

DetIdle ==
  /\ detFile = <<>>
  /\ detI = 0
  /\ gbkLikeCount = 0
  /\ asciiCount = 0
  /\ maxRead = -1
  /\ detResult = "utf-8"
  /\ detPc = "done"

\* One of the three BOM tests applies: return its encoding.
DetectBom ==
  /\ detPc = "bom"
  /\ BomOf(detFile) # ""
  /\ detResult' = BomOf(detFile)
  /\ maxRead' = BomReads(detFile)
  /\ detPc' = "done"
  /\ UNCHANGED <<detFile, detI, gbkLikeCount, asciiCount>>
  /\ UNCHANGED <<segVars, rdVars, pkVars, appVars>>

\* No BOM: let gbkLikeCount = 0; let asciiCount = 0; for (let i = 0; ...
DetectNoBom ==
  /\ detPc = "bom"
  /\ BomOf(detFile) = ""
  /\ maxRead' = BomReads(detFile)
  /\ detI' = 0
  /\ gbkLikeCount' = 0
  /\ asciiCount' = 0
  /\ detPc' = "scan"
  /\ UNCHANGED <<detFile, detResult>>
  /\ UNCHANGED <<segVars, rdVars, pkVars, appVars>>

\* One pass of the scan loop at an ASCII byte, or at a byte that is neither
\* ASCII nor a lead byte before a trail byte.
ScanSingle ==
  /\ detPc = "scan"
  /\ detI < ScanBound(detFile)
  /\ LET b == ByteAt(detFile, detI)
         lead == ~IsAscii(b) /\ IsLead(b)
     IN /\ ~(lead /\ IsTrail(ByteAt(detFile, detI + 1)))
        /\ asciiCount' = IF IsAscii(b) THEN asciiCount + 1 ELSE asciiCount
        /\ maxRead' = IF lead /\ detI + 1 > maxRead THEN detI + 1
                      ELSE IF detI > maxRead THEN detI ELSE maxRead
  /\ detI' = detI + 1
  /\ UNCHANGED <<detFile, gbkLikeCount, detResult, detPc>>
  /\ UNCHANGED <<segVars, rdVars, pkVars, appVars>>

\* One pass of the scan loop at a lead byte followed by a trail byte:
\* gbkLikeCount++; i++ (and the loop's own i++).
ScanPair ==
  /\ detPc = "scan"
  /\ detI < ScanBound(detFile)
  /\ LET b == ByteAt(detFile, detI)
     IN ~IsAscii(b) /\ IsLead(b) /\ IsTrail(ByteAt(detFile, detI + 1))
  /\ gbkLikeCount' = gbkLikeCount + 1
  /\ maxRead' = IF detI + 1 > maxRead THEN detI + 1 ELSE maxRead
  /\ detI' = detI + 2
  /\ UNCHANGED <<detFile, asciiCount, detResult, detPc>>
  /\ UNCHANGED <<segVars, rdVars, pkVars, appVars>>

\* The loop has ended: return "gbk" or "utf-8".
ScanEnd ==
  /\ detPc = "scan"
  /\ ~(detI < ScanBound(detFile))
  /\ detResult' = Verdict(gbkLikeCount, asciiCount)
  /\ detPc' = "done"
  /\ UNCHANGED <<detFile, detI, gbkLikeCount, asciiCount, maxRead>>
  /\ UNCHANGED <<segVars, rdVars, pkVars, appVars>>

DetNext == DetectBom \/ DetectNoBom \/ ScanSingle \/ ScanPair \/ ScanEnd

\* --------------------------------------- encoding detection: properties ----

\* The source begins with the bytes of prefix.
StartsWith(src, prefix) ==
  /\ SrcLen(src) >= Len(prefix)
  /\ \A k \in 1..Len(prefix) : RunByte(src, k - 1) = prefix[k]

Utf8Bom == <<239, 187, 191>>

Utf16leBom == <<255, 254>>

Utf16beBom == <<254, 255>>

HasBom(src) ==
  StartsWith(src, Utf8Bom) \/ StartsWith(src, Utf16leBom)
    \/ StartsWith(src, Utf16beBom)

RECURSIVE RefRun(_, _, _)
RefRun(src, st, stop) ==
  IF st.i >= stop THEN st
  ELSE LET b == RunByte(src, st.i)
           nxt == RunByte(src, st.i + 1)
       IN IF b >= 129 /\ b <= 254 /\ nxt >= 64 /\ nxt <= 254
          THEN RefRun(src, [st EXCEPT !.i = @ + 2, !.gbk = @ + 1], stop)
          ELSE RefRun(src, [st EXCEPT !.i = @ + 1,
                                      !.ascii = IF b < 128 THEN @ + 1 ELSE @],
                      stop)

RefStop(src) == IF SrcLen(src) - 1 < 1000 THEN SrcLen(src) - 1 ELSE 1000

\* The scan in stretches of 50 positions, which bounds the depth of the
\* evaluation; the result is that of one run over all positions.
RECURSIVE RefScanFrom(_, _)
RefScanFrom(src, st) ==
  IF st.i >= RefStop(src) THEN st
  ELSE RefScanFrom(src,
         RefRun(src, st, IF st.i + 50 < RefStop(src) THEN st.i + 50
                         ELSE RefStop(src)))

RefScan(src) == RefScanFrom(src, [i |-> 0, gbk |-> 0, ascii |-> 0])

Encodings ==
  {"utf-8", "utf-16le", "utf-16be", "gbk", "big5", "shift-jis", "euc-kr"}

\* C9: without BOM the result is "gbk" exactly when the scan counts more than
\* 5 pairs and more than a tenth of its count of ASCII bytes, and "utf-8"
\* otherwise (so for a source of at most one byte); the function returns an
\* encoding and never reads a byte past the end of bytes.
C9_GbkHeuristic ==
  /\ maxRead < BytesLen(detFile)
  /\ detPc = "done" => detResult \in Encodings
  /\ (detPc = "done" /\ ~HasBom(detFile)) =>
       LET ref == RefScan(detFile)
       IN /\ gbkLikeCount = ref.gbk
          /\ asciiCount = ref.ascii
          /\ detResult = IF ref.gbk > 5 /\ 10 * ref.gbk > ref.ascii
                         THEN "gbk" ELSE "utf-8"
          /\ SrcLen(detFile) <= 1 => detResult = "utf-8"

\* Six pairs against 60 ASCII bytes: "utf-8", on the ratio alone.
C9_Witness ==
  /\ detPc = "done"
  /\ ~HasBom(detFile)
  /\ gbkLikeCount = 6
  /\ asciiCount = 60
  /\ detResult = "utf-8"

\* The scan stopped at the limit of 1000 with its sixth pair read at the
\* indexes 999 and 1000, and bytes left unread after it: "gbk".
C9_WitnessLimit ==
  /\ detPc = "done"
  /\ detI = ScanLimit + 1
  /\ gbkLikeCount = 6
  /\ SrcLen(detFile) > ScanLimit + 1
  /\ detResult = "gbk"

\* The first n bytes of a source.
RECURSIVE TakeBytes(_, _)
TakeBytes(src, n) ==
  IF src = <<>> \/ n <= 0 THEN <<>>
  ELSE IF src[1].n <= n
  THEN <<src[1]>> \o TakeBytes(Tail(src), n - src[1].n)
  ELSE <<[b |-> src[1].b, n |-> n]>>

\* The encoding the scan gives a source without BOM.
ScanResult(src) ==
  LET ref == RefScan(src) IN Verdict(ref.gbk, ref.ascii)

\* C21: the heuristic scan covers at most the first 1000 bytes of the source:
\* two sources without BOM that agree on their first 1000 bytes are given the
\* same encoding, whatever bytes follow; so a source is given the encoding of
\* its first 1000 bytes alone.
C21_First1000BytesDecide ==
  (detPc = "done" /\ ~HasBom(detFile)) =>
    detResult = ScanResult(TakeBytes(detFile, 1000))

\* What does hold of the reach of the scan: the byte at index 1000 is the
\* last one read, so the first 1001 bytes decide.
C21_First1001BytesDecide ==
  /\ maxRead <= 1000
  /\ (detPc = "done" /\ ~HasBom(detFile)) =>
       detResult = ScanResult(TakeBytes(detFile, 1001))

\* ============================================================================
\* EPUB packaging (generateEpub, App.vue 229-358; escapeXml, 367-374)
\* ============================================================================

\* text.replace(/c/g, entity) on a sequence of characters
RECURSIVE ReplaceAll(_, _, _)
ReplaceAll(text, c, entity) ==
  IF text = <<>> THEN <<>>
  ELSE (IF Head(text) = c THEN entity ELSE <<Head(text)>>)
         \o ReplaceAll(Tail(text), c, entity)

\* The five replacements with "&" last: the "&" of the entities written by the
\* first four is escaped again.
escapeXmlAmpLast(text) ==
  ReplaceAll(
    ReplaceAll(
      ReplaceAll(
        ReplaceAll(
          ReplaceAll(text, "<", <<"&", "l", "t", ";">>),
          ">", <<"&", "g", "t", ";">>),
        "\"", <<"&", "q", "u", "o", "t", ";">>),
      "'", <<"&", "a", "p", "o", "s", ";">>),
    "&", <<"&", "a", "m", "p", ";">>)

\* function escapeXml(text): the five replacements, "&" first.
escapeXml(text) ==
  ReplaceAll(
    ReplaceAll(
      ReplaceAll(
        ReplaceAll(
          ReplaceAll(text, "&", <<"&", "a", "m", "p", ";">>),
          "<", <<"&", "l", "t", ";">>),
        ">", <<"&", "g", "t", ";">>),
      "\"", <<"&", "q", "u", "o", "t", ";">>),
    "'", <<"&", "a", "p", "o", "s", ";">>)

\* The texts of the modelled book: plain, and with XML special characters.
PackTexts == { <<"a">>, <<"&">>, <<"<", "a", ">">>, <<"\"", "'">> }

\* The chapters of the modelled book.
PackChapters ==
  { [title |-> <<"a">>, content |-> << <<"a">> >>],
    [title |-> <<"&">>, content |-> << <<"<", "a", ">">>, <<"a">> >>],
    [title |-> <<"<", "a", ">">>, content |-> << <<"&", "\"", "'">> >>] }

\* zip.file with a new entry put in front of the entries already there.
ZipFileInFront(z, name, data, compression) ==
  LET e == [name |-> name, data |-> data, compression |-> compression]
  IN IF \E k \in 1..Len(z) : z[k].name = name
     THEN [k \in 1..Len(z) |-> IF z[k].name = name THEN e ELSE z[k]]
     ELSE <<e>> \o z

\* zip.file(name, data, options): a new entry at the end, or the data of the
\* entry of that name replaced.
ZipFile(z, name, data, compression) ==
  LET e == [name |-> name, data |-> data, compression |-> compression]
  IN IF \E k \in 1..Len(z) : z[k].name = name
     THEN [k \in 1..Len(z) |-> IF z[k].name = name THEN e ELSE z[k]]
     ELSE Append(z, e)

\* `chapter${i}`, the manifest id and spine idref of chapter i
ChapterId(i) == "chapter" \o ToString(i)

\* `chapter${i}.xhtml`, numbered from 1.
ChapterHrefFrom1(i) == "chapter" \o ToString(i + 1) \o ".xhtml"

\* `chapter${i}.xhtml`, the manifest href and navPoint src of chapter i
ChapterHref(i) == "chapter" \o ToString(i) \o ".xhtml"

\* `OEBPS/chapter${i}.xhtml`, the archive entry of chapter i
ChapterEntry(i) == "OEBPS/chapter" \o ToString(i) \o ".xhtml"

\* const manifestItems = chapters.map((_, i) => `<item id= href= .../>`)
manifestItems ==
  [k \in 1..Len(pkChapters) |->
     [id |-> ChapterId(k - 1), href |-> ChapterHref(k - 1),
      mediaType |-> "application/xhtml+xml"]]

\* const spineItems = chapters.map((_, i) => `<itemref idref=.../>`)
spineItems == [k \in 1..Len(pkChapters) |-> ChapterId(k - 1)]

\* const navPoints = chapters.map((ch, i) => `<navPoint ...>`)
navPoints ==
  [k \in 1..Len(pkChapters) |->
     [id |-> ChapterId(k - 1), playOrder |-> k,
      text |-> escapeXml(pkChapters[k].title), src |-> ChapterHref(k - 1)]]

\* const title = bookTitle.value || file.value.name
title == IF bookTitle # <<>> THEN bookTitle ELSE fileName

\* const author = bookAuthor.value
author == bookAuthor

PkInit ==
  /\ pkChapters \in SeqsUpTo(PackChapters, MaxPackChapters) \ {<<>>}
  /\ bookTitle \in {<<>>} \cup PackTexts
  /\ bookAuthor \in {<<"a">>, <<"&">>}
  /\ fileName = <<"f">>
  /\ clock = 0
  /\ zip = <<>>
  /\ pkI = 0
  /\ downloads = <<>>
  /\ pkPc = "mimetype"

PkIdle ==
  /\ pkChapters = <<>>
  /\ bookTitle = <<>>
  /\ bookAuthor = <<"a">>
  /\ fileName = <<"f">>
  /\ clock = 0
  /\ zip = <<>>
  /\ pkI = 0
  /\ downloads = <<>>
  /\ pkPc = "idle"

pkInputs == <<pkChapters, bookTitle, bookAuthor, fileName>>

\* zip.file("mimetype", "application/epub+zip", { compression: "STORE" })
PkMimetype ==
  /\ pkPc = "mimetype"
  /\ zip' = ZipFile(zip, "mimetype",
                    [kind |-> "text", text |-> "application/epub+zip"], "STORE")
  /\ pkPc' = "container"
  /\ UNCHANGED <<pkInputs, clock, pkI, downloads>>
  /\ UNCHANGED <<segVars, rdVars, detVars, appVars>>

\* zip.file("META-INF/container.xml", ...)
PkContainer ==
  /\ pkPc = "container"
  /\ zip' = ZipFile(zip, "META-INF/container.xml",
                    [kind |-> "container", rootfile |-> "OEBPS/content.opf"],
                    "default")
  /\ pkPc' = "opf"
  /\ UNCHANGED <<pkInputs, clock, pkI, downloads>>
  /\ UNCHANGED <<segVars, rdVars, detVars, appVars>>

\* zip.file("OEBPS/content.opf", ...), with Date.now() as dc:identifier
PkOpf ==
  /\ pkPc = "opf"
  /\ \E now \in clock..MaxTime :
       /\ clock' = now
       /\ zip' = ZipFile(zip, "OEBPS/content.opf",
                    [kind |-> "opf",
                     title |-> escapeXml(title),
                     creator |-> escapeXml(author),
                     language |-> "zh",
                     identifier |-> now,
                     manifest |->
                       << [id |-> "ncx", href |-> "toc.ncx",
                           mediaType |-> "application/x-dtbncx+xml"],
                          [id |-> "style", href |-> "style.css",
                           mediaType |-> "text/css"] >> \o manifestItems,
                     spine |-> spineItems],
                    "default")
  /\ pkPc' = "ncx"
  /\ UNCHANGED <<pkInputs, pkI, downloads>>
  /\ UNCHANGED <<segVars, rdVars, detVars, appVars>>

\* zip.file("OEBPS/toc.ncx", ...), with Date.now() as dtb:uid
PkNcx ==
  /\ pkPc = "ncx"
  /\ \E now \in clock..MaxTime :
       /\ clock' = now
       /\ zip' = ZipFile(zip, "OEBPS/toc.ncx",
                    [kind |-> "ncx",
                     uid |-> now,
                     docTitle |-> escapeXml(title),
                     navMap |-> navPoints],
                    "default")
  /\ pkPc' = "css"
  /\ UNCHANGED <<pkInputs, pkI, downloads>>
  /\ UNCHANGED <<segVars, rdVars, detVars, appVars>>

\* zip.file("OEBPS/style.css", ...)
PkStyle ==
  /\ pkPc = "css"
  /\ zip' = ZipFile(zip, "OEBPS/style.css", [kind |-> "css"], "default")
  /\ pkI' = 0
  /\ pkPc' = "chapters"
  /\ UNCHANGED <<pkInputs, clock, downloads>>
  /\ UNCHANGED <<segVars, rdVars, detVars, appVars>>

\* chapters.forEach((ch, i) => zip.file(`OEBPS/chapter${i}.xhtml`, ...))
PkChapter ==
  /\ pkPc = "chapters"
  /\ pkI < Len(pkChapters)
  /\ LET ch == pkChapters[pkI + 1]
     IN zip' = ZipFile(zip, ChapterEntry(pkI),
                  [kind |-> "xhtml",
                   title |-> escapeXml(ch.title),
                   h1 |-> escapeXml(ch.title),
                   paragraphs |->
                     [k \in 1..Len(ch.content) |-> escapeXml(ch.content[k])]],
                  "default")
  /\ pkI' = pkI + 1
  /\ UNCHANGED <<pkInputs, clock, downloads, pkPc>>
  /\ UNCHANGED <<segVars, rdVars, detVars, appVars>>

\* const blob = await zip.generateAsync({ type: "blob" }); a.download =
\* `${title}.epub`; a.click().  generateAsync is given no compression, so an
\* entry without its own option is written with JSZip's default, "STORE".
PkDownload ==
  /\ pkPc = "chapters"
  /\ pkI = Len(pkChapters)
  /\ downloads' =
       Append(downloads,
              [name |-> title \o <<".epub">>,
               entries |->
                 [k \in 1..Len(zip) |->
                    IF zip[k].compression = "default"
                    THEN [zip[k] EXCEPT !.compression = "STORE"]
                    ELSE zip[k]]])
  /\ pkPc' = "done"
  /\ UNCHANGED <<pkInputs, clock, zip, pkI>>
  /\ UNCHANGED <<segVars, rdVars, detVars, appVars>>

PkNext ==
  \/ PkMimetype \/ PkContainer \/ PkOpf \/ PkNcx \/ PkStyle \/ PkChapter
  \/ PkDownload

\* ------------------------------------------------ packaging: properties ----

\* The names of the entries of the downloaded archive, in order.
ArchiveNames ==
  [k \in 1..Len(downloads[1].entries) |-> downloads[1].entries[k].name]

\* The package document of the downloaded archive.
ArchiveOpf ==
  LET k == CHOOSE k \in 1..Len(downloads[1].entries) :
             downloads[1].entries[k].name = "OEBPS/content.opf"
  IN downloads[1].entries[k].data

\* An href of the package document names the entry beside the package
\* document, in OEBPS/.
Resolve(href) == "OEBPS/" \o href

ArchiveNcx ==
  LET k == CHOOSE k \in 1..Len(downloads[1].entries) :
             downloads[1].entries[k].name = "OEBPS/toc.ncx"
  IN downloads[1].entries[k].data

\* C26: within one generated archive the unique identifier of the book is a
\* single value: the dc:identifier of OEBPS/content.opf equals the dtb:uid of
\* OEBPS/toc.ncx, however the clock advances during the packaging.
C26_SingleIdentifier ==
  pkPc = "done" => ArchiveOpf.identifier = ArchiveNcx.uid

\* What does hold of the two identifiers: each is the time of its own
\* Date.now() call, the second not before the first.
C26_IdentifiersInOrder ==
  pkPc = "done" =>
    /\ ArchiveOpf.identifier <= ArchiveNcx.uid
    /\ ArchiveNcx.uid = clock

\* The entry the source adds first.
MimetypeEntry ==
  [name |-> "mimetype",
   data |-> [kind |-> "text", text |-> "application/epub+zip"],
   compression |-> "STORE"]

\* C11: in every generation the entry "mimetype" is added to the archive
\* before any other entry (it is the first entry whenever the archive has
\* one, and no entry is ever put in front of it), its content is exactly
\* "application/epub+zip", and it is stored without compression, in the
\* archive under construction and in the downloaded one.
C11_MimetypeFirst ==
  /\ zip # <<>> => zip[1] = MimetypeEntry
  /\ \A k \in 2..Len(zip) : zip[k].name # "mimetype"
  /\ \A d \in 1..Len(downloads) :
       /\ downloads[d].entries # <<>>
       /\ downloads[d].entries[1] = MimetypeEntry

\* The archive of a book has been downloaded, the other entries after
\* "mimetype".
C11_Witness ==
  /\ Len(downloads) = 1
  /\ Len(downloads[1].entries) >= 6
  /\ downloads[1].entries[1].name = "mimetype"
  /\ downloads[1].entries[1].compression = "STORE"

\* The entity of a character, or the character itself.
EntityOf(c) ==
  CASE c = "&" -> <<"&", "a", "m", "p", ";">>
    [] c = "<" -> <<"&", "l", "t", ";">>
    [] c = ">" -> <<"&", "g", "t", ";">>
    [] c = "\"" -> <<"&", "q", "u", "o", "t", ";">>
    [] c = "'" -> <<"&", "a", "p", "o", "s", ";">>
    [] OTHER -> <<c>>

\* A text with each character replaced once, independently of the others.
EscapedOnce(text) == Flatten([k \in 1..Len(text) |-> EntityOf(text[k])])

Entities == {EntityOf(c) : c \in {"&", "<", ">", "\"", "'"}}

\* No raw special character: none of < > " ' occurs, and every & starts one
\* of the five entities.
NoRawSpecial(t) ==
  \A i \in 1..Len(t) :
    /\ t[i] \notin {"<", ">", "\"", "'"}
    /\ t[i] = "&" =>
         \E e \in Entities :
           i + Len(e) - 1 <= Len(t) /\ SubSeq(t, i, i + Len(e) - 1) = e

\* The entry of that name in the archive under construction.
ZipEntry(name) ==
  zip[CHOOSE k \in 1..Len(zip) : zip[k].name = name].data

HasEntry(name) == \E k \in 1..Len(zip) : zip[k].name = name

\* The user's texts as a generated document holds them, paired with the texts
\* they come from.
InsertedTexts ==
  (IF HasEntry("OEBPS/content.opf")
   THEN {<<ZipEntry("OEBPS/content.opf").title, title>>,
         <<ZipEntry("OEBPS/content.opf").creator, author>>}
   ELSE {})
  \cup
  (IF HasEntry("OEBPS/toc.ncx")
   THEN {<<ZipEntry("OEBPS/toc.ncx").docTitle, title>>}
        \cup {<<ZipEntry("OEBPS/toc.ncx").navMap[k].text, pkChapters[k].title>> :
                k \in 1..Len(ZipEntry("OEBPS/toc.ncx").navMap)}
   ELSE {})
  \cup
  UNION {
    IF HasEntry(ChapterEntry(k - 1))
    THEN LET doc == ZipEntry(ChapterEntry(k - 1))
         IN {<<doc.title, pkChapters[k].title>>, <<doc.h1, pkChapters[k].title>>}
            \cup {<<doc.paragraphs[j], pkChapters[k].content[j]>> :
                    j \in 1..Len(doc.paragraphs)}
    ELSE {} : k \in 1..Len(pkChapters)}

\* C12: every user-supplied string inserted into a generated document (title
\* and author in content.opf, title and chapter titles in toc.ncx, chapter
\* title and every content line in chapter{i}.xhtml) is inserted with each of
\* & < > " ' replaced by its entity, each character escaped exactly once, so
\* that no raw special character of user text reaches a document; every
\* chapter, with all its lines, is in its document.
C12_Escaped ==
  /\ \A p \in InsertedTexts :
       p[1] = EscapedOnce(p[2]) /\ NoRawSpecial(p[1])
  /\ HasEntry("OEBPS/toc.ncx") =>
       Len(ZipEntry("OEBPS/toc.ncx").navMap) = Len(pkChapters)
  /\ \A k \in 1..Len(pkChapters) :
       HasEntry(ChapterEntry(k - 1)) =>
         Len(ZipEntry(ChapterEntry(k - 1)).paragraphs)
           = Len(pkChapters[k].content)

\* A finished archive whose documents hold a title with < and >, an author
\* with &, a chapter title with & and a content line with " and '.
C12_Witness ==
  /\ pkPc = "done"
  /\ title = <<"<", "a", ">">>
  /\ author = <<"&">>
  /\ \E k \in 1..Len(pkChapters) : pkChapters[k].title = <<"&">>
  /\ \E p \in InsertedTexts : p[2] = <<"&", "\"", "'">> /\ p[1] # p[2]

\* C13: a decode pass started with an encoding identifier outside the
\* supported enumeration (such as the initial "auto") fails at decoder
\* construction: the pass never gets past the construction, and when the
\* error is raised no chunk of the source has been read and no line has been
\* yielded; a pass with an identifier of the enumeration raises no such
\* error.
C13_FailsAtConstruction ==
  /\ rdEnc \notin Encodings => rdPc \in {"new", "error"}
  /\ rdPc = "error" =>
       /\ rdEnc \notin Encodings
       /\ chunkReads = 0
       /\ offset = 0
       /\ buffer = <<>>
       /\ yielded = <<>>

\* A pass over a source with a line in it has failed with "auto".
C13_Witness ==
  /\ rdPc = "error"
  /\ rdEnc = "auto"
  /\ \E i \in 1..Len(rdBytes) : rdBytes[i] = LF

\* ============================================================================
\* The component: its refs, the file input, the preview passes, the pattern
\* (App.vue 10-29, 115-173)
\* ============================================================================

\* ---------------------------------------------------------------- files ----

\* A File is its name and its bytes, the bytes as a sequence of runs
\* [unit, n]: the byte sequence unit repeated n times.
RECURSIVE FileSize(_)
FileSize(f) ==
  IF f.runs = <<>> THEN 0
  ELSE Len(f.runs[1].unit) * f.runs[1].n
         + FileSize([f EXCEPT !.runs = Tail(@)])

\* The byte at index i (from 0) of the file, i < file.size.
RECURSIVE FileByte(_, _)
FileByte(f, i) ==
  LET r == f.runs[1]
      len == Len(r.unit) * r.n
  IN IF i < len THEN r.unit[(i % Len(r.unit)) + 1]
     ELSE FileByte([f EXCEPT !.runs = Tail(@)], i - len)

\* file.slice(start, end): the bytes from start up to, not including,
\* min(end, file.size).
FileSlice(f, start, end) ==
  LET stop == IF end < FileSize(f) THEN end ELSE FileSize(f)
  IN [k \in 1..(IF stop > start THEN stop - start ELSE 0) |->
        FileByte(f, start + k - 1)]

\* _file.name.replace(/\.[^/.]+$/, ""): the name without its last extension.
StripExtension(name) ==
  LET dots == {i \in 1..Len(name) : name[i] = "."}
  IN IF dots = {} THEN name
     ELSE LET d == Max(dots)
          IN IF d < Len(name)
                /\ \A i \in d + 1..Len(name) : name[i] \notin {".", "/"}
             THEN SubSeq(name, 1, d - 1)
             ELSE name

\* ----------------------------------------- detectEncoding on a File ----

\* bytes.length of new Uint8Array(await file.slice(0, 4096).arrayBuffer())
PrefixLen(f) == IF FileSize(f) < SliceLimit THEN FileSize(f) ELSE SliceLimit

\* bytes[i]
PrefixByte(f, i) ==
  IF i >= 0 /\ i < PrefixLen(f) THEN FileByte(f, i) ELSE Undefined

\* The three BOM tests (App.vue 36-53); "" when none applies.
FileBom(f) ==
  IF PrefixLen(f) >= 3 /\ PrefixByte(f, 0) = 239 /\ PrefixByte(f, 1) = 187
     /\ PrefixByte(f, 2) = 191
  THEN "utf-8"
  ELSE IF PrefixLen(f) >= 2 /\ PrefixByte(f, 0) = 255 /\ PrefixByte(f, 1) = 254
  THEN "utf-16le"
  ELSE IF PrefixLen(f) >= 2 /\ PrefixByte(f, 0) = 254 /\ PrefixByte(f, 1) = 255
  THEN "utf-16be"
  ELSE ""

\* Math.min(bytes.length - 1, 1000)
FileScanBound(f) ==
  IF PrefixLen(f) - 1 < ScanLimit THEN PrefixLen(f) - 1 ELSE ScanLimit

\* The passes of the scan loop (App.vue 59-71) from st = [i, gbk, ascii] while
\* i is below stop.
RECURSIVE FileScanRun(_, _, _)
FileScanRun(f, st, stop) ==
  IF st.i >= stop THEN st
  ELSE LET b == PrefixByte(f, st.i)
       IN IF IsAscii(b)
          THEN FileScanRun(f, [st EXCEPT !.i = @ + 1, !.ascii = @ + 1], stop)
          ELSE IF IsLead(b) /\ IsTrail(PrefixByte(f, st.i + 1))
          THEN FileScanRun(f, [st EXCEPT !.i = @ + 2, !.gbk = @ + 1], stop)
          ELSE FileScanRun(f, [st EXCEPT !.i = @ + 1], stop)

\* The whole loop, evaluated in stretches of 50 positions.
RECURSIVE FileScanFrom(_, _)
FileScanFrom(f, st) ==
  IF st.i >= FileScanBound(f) THEN st
  ELSE FileScanFrom(f,
         FileScanRun(f, st, IF st.i + 50 < FileScanBound(f) THEN st.i + 50
                            ELSE FileScanBound(f)))

\* async function detectEncoding(file): the value the promise resolves to.
detectEncoding(f) ==
  IF FileBom(f) # "" THEN FileBom(f)
  ELSE LET st == FileScanFrom(f, [i |-> 0, gbk |-> 0, ascii |-> 0])
       IN Verdict(st.gbk, st.ascii)

\* ----------------------------------------------- the boundary pattern ----

\* regex.value when the pattern is absent.
NoRegex == "undefined"

\* new RegExp(text): the compiled pattern, or the SyntaxError thrown.  The
\* texts of Patterns are valid, "(" is not.
NewRegExp(text) == IF text \in Patterns THEN text ELSE "SyntaxError"

\* The computed without its try/catch: the SyntaxError gets out.
CompiledUncaught(text) == IF text # "" THEN NewRegExp(text) ELSE NoRegex

\* const regex = computed(() => { if (regexText.value) { try { return new
\* RegExp(regexText.value) } catch (error) { return undefined } } return
\* undefined })
Compiled(text) ==
  IF text # ""
  THEN IF NewRegExp(text) = "SyntaxError" THEN NoRegex ELSE NewRegExp(text)
  ELSE NoRegex

\* regex.value
regex == Compiled(regexText)

\* The callback of watch([lines, regex], ...): the value it leaves in
\* matchedChapters.
Watch(ls, rx) ==
  IF rx # NoRegex /\ Len(ls) > 0
  THEN LET idx == {i \in 1..Len(ls) : Matches(ls[i], rx)}
           rank == [i \in idx |-> Cardinality({j \in idx : j < i})]
           nth == [k \in 1..Cardinality(idx) |->
                     CHOOSE i \in idx : rank[i] = k - 1]
       IN [k \in 1..Cardinality(idx) |->
             [index |-> nth[k] - 1, title |-> Trim(ls[nth[k]])]]
  ELSE <<>>

\* The watcher runs when regex.value has changed (a new RegExp object, or a
\* change from or to undefined), not when it is undefined as before.
WatchAfterEdit(text) ==
  IF Compiled(text) = NoRegex /\ regex = NoRegex THEN matchedChapters
  ELSE Watch(previewLines, Compiled(text))

\* ------------------------------------------------ the generator object ----

\* The characters of the modelled lines, from their code points: U+0020 and
\* U+200A are white space, "a" and "m" themselves, any other one is an
\* ordinary character.
CharOf(cp) ==
  CASE cp = 32 -> " "
    [] cp = 8202 -> " "
    [] cp = 97 -> "a"
    [] cp = 109 -> "m"
    [] OTHER -> "?"

TextLines(ls) == [k \in 1..Len(ls) |-> [j \in 1..Len(ls[k]) |-> CharOf(ls[k][j])]]

\* A generator that takes over the decoder, the buffer and the offset of the
\* latest preview pass that has made one, instead of its own.
SharedReader(f, enc) ==
  LET made == {k \in 1..Len(previews) : previews[k].reader # <<>>}
  IN IF made = {}
     THEN [file |-> f, enc |-> enc, offset |-> 0, buffer |-> <<>>,
           pending |-> <<>>, bomSeen |-> FALSE]
     ELSE LET k == CHOOSE k \in made : \A j \in made : j <= k
          IN [previews[k].reader EXCEPT !.file = f, !.enc = enc]

\* readFileLinesWithEncoding(file, encoding) once its body has started:
\* const decoder, let buffer = "", let offset = 0.
NewReader(f, enc) ==
  [file |-> f, enc |-> enc, offset |-> 0, buffer |-> <<>>, pending |-> <<>>,
   bomSeen |-> FALSE]

\* U+FEFF, the byte order mark.
Bom == 65279

\* new TextDecoder(encoding) has ignoreBOM false: a decoder of utf-8 or of
\* utf-16 leaves out a byte order mark at the start of the stream, which is
\* the first code point it decodes when that is U+FEFF.
DropBom(enc, seen, text) ==
  IF ~seen /\ enc \in {"utf-8", "utf-16le", "utf-16be"} /\ text # <<>>
     /\ Head(text) = Bom
  THEN Tail(text) ELSE text

\* One pass of the while loop of the generator, from the chunk read to
\* offset += chunkSize: the generator after it and the lines it yields.
ReaderChunk(r) ==
  LET chunk == FileSlice(r.file, r.offset, r.offset + PassChunkSize)
      d == DecodeStream(r.enc, r.pending, chunk)
      parts == SplitLF(r.buffer \o DropBom(r.enc, r.bomSeen, d.text))
  IN [reader |-> [r EXCEPT !.pending = d.pending, !.buffer = Last(parts),
                           !.offset = @ + PassChunkSize,
                           !.bomSeen = @ \/ d.text # <<>>],
      lines |-> TextLines(StripEach(Front(parts)))]

\* if (buffer) { for (const line of buffer.split("\n")) yield ... }
ReaderTail(r) ==
  IF r.buffer # <<>> THEN TextLines(StripEach(SplitLF(r.buffer))) ELSE <<>>

\* while (offset < file.size)
ReaderMore(r) == r.offset < FileSize(r.file)

\* --------------------------------------------------- loadFilePreview ----

\* if (count >= 200) break
PreviewCap == 200

\* The for-await loop of loadFilePreview over the lines ls the generator
\* yields without a chunk read in between.  st = [lines, count, pulls,
\* stopped, got, capPulls, capReads]: lines.value, count, the next() calls
\* made, whether the loop has left by break, and as history the lines
\* received and the next() calls and chunk reads made when count reached the
\* cap (-1 before).  Each line received is followed by the next next()
\* unless the loop breaks on it.
RECURSIVE PreviewTake(_, _, _)
PreviewTake(st, ls, reads) ==
  IF ls = <<>> \/ st.stopped THEN st
  ELSE LET line == Head(ls)
           got == Append(st.got, line)
       IN IF st.count >= PreviewCap
          THEN [st EXCEPT !.stopped = TRUE, !.got = got]
          ELSE LET c == IF Len(Trim(line)) > 0 THEN st.count + 1 ELSE st.count
                   atCap == c >= PreviewCap /\ st.capPulls = -1
               IN PreviewTake(
                    [lines |-> Append(st.lines, line),
                     count |-> c,
                     pulls |-> st.pulls + 1,
                     stopped |-> FALSE,
                     got |-> got,
                     capPulls |-> IF atCap THEN st.pulls ELSE st.capPulls,
                     capReads |-> IF atCap THEN reads ELSE st.capReads],
                    Tail(ls), reads)

\* onFileChange after its test, suspended in await detectEncoding(_file).
DetectingPass(f) ==
  [origin |-> "file", file |-> f, stage |-> "detect", reader |-> <<>>,
   count |-> 0, pulls |-> 0, reads |-> 0, got |-> <<>>,
   capPulls |-> -1, capReads |-> -1]

\* loadFilePreview(file, enc) up to its first suspension: the generator is
\* made, lines.value = [], and the first next() runs the generator to its
\* first chunk read, or to its end when the file is empty, or into the
\* RangeError of the decoder.
StartedPass(origin, f, enc) ==
  [origin |-> origin, file |-> f,
   stage |-> IF ~TextDecoderAccepts(enc) THEN "error"
             ELSE IF FileSize(f) > 0 THEN "read" ELSE "done",
   reader |-> NewReader(f, enc),
   count |-> 0, pulls |-> 1,
   reads |-> IF TextDecoderAccepts(enc) /\ FileSize(f) > 0 THEN 1 ELSE 0,
   got |-> <<>>, capPulls |-> -1, capReads |-> -1]

\* setTimeout(() => { regexText.value = ... }, 200), reached when
\* loadFilePreview has returned to onFileChange.
TimersAfter(p) ==
  IF p.origin = "file" /\ p.stage = "done" THEN timers + 1 ELSE timers

\* No handler is in the middle of a synchronous stretch: the packaging of
\* generateEpub runs from new JSZip() to await zip.generateAsync() and from
\* there to the finally block without yielding to the event loop.
Quiescent ==
  \/ pkPc = "idle"
  \/ pkPc = "chapters" /\ pkI = Len(pkChapters)

\* 50 * 1048576
MaxFileSize == 50 * 1048576

\* The test of onFileChange with <= in place of <.
AdmitsUpToLimit(f) == f # <<>> /\ FileSize(f) <= MaxFileSize

\* if (_file && _file.size < 50 * 1048576)
Admits(f) == f # <<>> /\ FileSize(f) < MaxFileSize

\* async function onFileChange(e), up to await detectEncoding(_file); the file
\* of the event is one of files (<<>>: the selection is empty); at most
\* passes preview passes are started in one behaviour.
OnFileChangeOf(files, passes) ==
  /\ Quiescent
  /\ picks < MaxPicks
  /\ \E f \in files :
       /\ Admits(f) => Len(previews) < passes
       /\ picks' = picks + 1
       /\ lastPick' = f
       /\ IF Admits(f)
          THEN /\ file' = f
               /\ bookTitleText' = StripExtension(f.name)
               /\ previews' = Append(previews, DetectingPass(f))
          ELSE UNCHANGED <<file, bookTitleText, previews>>
  /\ UNCHANGED <<previewLines, regexText, matchedChapters, isGenerating,
                 encoding, timers, gen, alerts, genCalls, attempt>>
  /\ UNCHANGED <<segVars, rdVars, detVars, pkVars>>

\* onFileChange from the end of detectEncoding: encoding.value =
\* detectedEncoding, then loadFilePreview(_file, detectedEncoding) up to its
\* first suspension.
DetectDone ==
  /\ Quiescent
  /\ \E k \in 1..Len(previews) :
       /\ previews[k].stage = "detect"
       /\ LET enc == detectEncoding(previews[k].file)
              p == StartedPass("file", previews[k].file, enc)
          IN /\ encoding' = enc
             /\ previewLines' = <<>>
             /\ matchedChapters' = <<>>
             /\ previews' = [previews EXCEPT ![k] = p]
             /\ timers' = TimersAfter(p)
  /\ UNCHANGED <<file, regexText, isGenerating, bookTitleText, gen, alerts,
                 picks, lastPick, genCalls, attempt>>
  /\ UNCHANGED <<segVars, rdVars, detVars, pkVars>>

\* A chunk read of a preview pass has ended: the generator decodes the chunk
\* and yields its lines to the for-await loop of loadFilePreview, then reads
\* the next chunk, or yields what is left in the buffer and ends.
PreviewChunk ==
  /\ Quiescent
  /\ \E k \in 1..Len(previews) :
       /\ previews[k].stage = "read"
       /\ LET p == previews[k]
              c == ReaderChunk(p.reader)
              st0 == [lines |-> previewLines, count |-> p.count,
                      pulls |-> p.pulls, stopped |-> FALSE, got |-> p.got,
                      capPulls |-> p.capPulls, capReads |-> p.capReads]
              st1 == PreviewTake(st0, c.lines, p.reads)
              more == ~st1.stopped /\ ReaderMore(c.reader)
              st2 == IF st1.stopped \/ more THEN st1
                     ELSE PreviewTake(st1, ReaderTail(c.reader), p.reads)
              q == [p EXCEPT !.reader = c.reader,
                             !.stage = IF more THEN "read" ELSE "done",
                             !.count = st2.count,
                             !.pulls = st2.pulls,
                             !.reads = IF more THEN @ + 1 ELSE @,
                             !.got = st2.got,
                             !.capPulls = st2.capPulls,
                             !.capReads = st2.capReads]
          IN /\ previewLines' = st2.lines
             /\ previews' = [previews EXCEPT ![k] = q]
             /\ timers' = TimersAfter(q)
  /\ UNCHANGED <<file, regexText, matchedChapters, isGenerating, encoding,
                 bookTitleText, gen, alerts, picks, lastPick, genCalls,
                 attempt>>
  /\ UNCHANGED <<segVars, rdVars, detVars, pkVars>>

\* The text the timer of onFileChange puts in the pattern input: in the
\* source zero or more of one character and then the character of the
\* chapter headings, which finds the lines holding that character.
TimerText == "m"

\* setTimeout(() => { regexText.value = ... }, 200), with the watcher.
TimerFire ==
  /\ Quiescent
  /\ timers > 0
  /\ timers' = timers - 1
  /\ regexText' = TimerText
  /\ matchedChapters' = IF regexText = TimerText THEN matchedChapters
                        ELSE WatchAfterEdit(TimerText)
  /\ UNCHANGED <<file, previewLines, isGenerating, encoding, bookTitleText,
                 previews, gen, alerts, picks, lastPick, genCalls, attempt>>
  /\ UNCHANGED <<segVars, rdVars, detVars, pkVars>>

\* The refs as the script sets them up: no file, no lines, no pattern text,
\* encoding "auto", nothing in flight.
AppInit ==
  /\ file = <<>>
  /\ previewLines = <<>>
  /\ regexText = ""
  /\ matchedChapters = <<>>
  /\ isGenerating = FALSE
  /\ encoding = "auto"
  /\ bookTitleText = <<>>
  /\ previews = <<>>
  /\ timers = 0
  /\ gen = <<>>
  /\ alerts = <<>>
  /\ picks = 0
  /\ lastPick = <<>>
  /\ genCalls = 0
  /\ attempt = <<>>

\* The files of the specification of the preview: 200 lines and then a line
\* longer than a chunk; 199 lines; two files of 200 and more lines that are
\* one byte below the admission limit and exactly at it; one a byte above.
LargeFiles ==
  { [name |-> <<"c", ".", "t">>,
     runs |-> << [unit |-> <<97, 10>>, n |-> PreviewCap],
                 [unit |-> <<97>>, n |-> 3 * PassChunkSize] >>],
    [name |-> <<"s">>,
     runs |-> << [unit |-> <<109, 10>>, n |-> PreviewCap - 1] >>],
    [name |-> <<"b", ".", "t">>,
     runs |-> << [unit |-> <<97, 10, 10, 109, 10>>, n |-> 10485759],
                 [unit |-> <<97, 10, 97, 10>>, n |-> 1] >>],
    [name |-> <<"l", ".", "t">>,
     runs |-> << [unit |-> <<97, 10, 10, 109, 10>>, n |-> 10485760] >>],
    [name |-> <<"o", ".", "t">>,
     runs |-> << [unit |-> <<97, 10, 10, 109, 10>>, n |-> 10485760],
                 [unit |-> <<97>>, n |-> 1] >>] }

\* onFileChange with the files of the preview.
OnFileChangeLarge == OnFileChangeOf(LargeFiles \cup {<<>>}, 1)

PreviewNext == OnFileChangeLarge \/ DetectDone \/ PreviewChunk \/ TimerFire

\* ---------------------------------- generateEpub as a handler in flight ----

\* line.match(regex.value) is not null, with regex.value read at that line:
\* match(undefined) compiles the empty pattern, which every line matches.
MatchLive(line, rx) == IF rx = NoRegex THEN TRUE ELSE Matches(line, rx)

\* The body of the for-await loop of generateEpub (App.vue 188-216) over the
\* lines ls the generator yields without a chunk read in between, the pattern
\* being rx meanwhile.  st = [chapters, cur].
RECURSIVE SegmentLines(_, _, _)
SegmentLines(st, ls, rx) ==
  IF ls = <<>> THEN st
  ELSE LET line == Head(ls)
           next ==
             IF MatchLive(line, rx)
             THEN [chapters |-> PushIfNonEmpty(st.chapters, st.cur),
                   cur |-> <<NewChapter(line)>>]
             ELSE IF st.cur # <<>>
             THEN [st EXCEPT !.cur = <<AppendContent(st.cur[1], line)>>]
             ELSE [st EXCEPT !.cur =
                     <<AppendContent([title |-> PrefaceTitle, content |-> <<>>],
                                     line)>>]
       IN SegmentLines(next, Tail(ls), rx)

\* The guard with the test of the pattern left out.
ShouldGenerateFileOnly == file # <<>>

\* The negation of  if (!file.value || !regex.value) return
ShouldGenerate == file # <<>> /\ regex # NoRegex

\* The test of the chapter list that never finds it empty.
NeverEmptyResult(chs) == FALSE

\* if (chapters.length === 0)
IsEmptyResult(chs) == Len(chs) = 0

\* The button that calls generateEpub can be clicked (App.vue 400, 539-542):
\* it is inside v-if="file" and has
\* :disabled="isGenerating || !regex || matchedChapters.length === 0".
ButtonEnabled ==
  /\ file # <<>>
  /\ ~isGenerating
  /\ regex # NoRegex
  /\ Len(matchedChapters) > 0

\* A call of generateEpub that the button does not make: there is no file or
\* no pattern.
PastTheButton == file = <<>> \/ regex = NoRegex

\* The history of a generateEpub call at its start.
NewAttempt(outcome) ==
  [outcome |-> outcome, rx |-> regex, file |-> file, enc |-> encoding,
   tested |-> <<>>, passDone |-> FALSE, downloads0 |-> Len(downloads),
   alerts0 |-> alerts, zip0 |-> zip, wasGenerating |-> isGenerating]

\* The end of a call without its finally block: isGenerating stays set.
EndAttemptNoFinally(outcome, tested, passDone) ==
  /\ alerts' = Append(alerts, outcome)
  /\ isGenerating' = TRUE
  /\ gen' = <<>>
  /\ attempt' = [attempt EXCEPT !.outcome = outcome, !.tested = tested,
                                !.passDone = passDone]

\* The end of a generateEpub call that has set isGenerating: the alert of
\* its branch ("empty" at App.vue 225, "success" at 358, "failed" at 361 in
\* the catch block) and then  finally { isGenerating.value = false }.
EndAttempt(outcome, tested, passDone) ==
  /\ alerts' = Append(alerts, outcome)
  /\ isGenerating' = FALSE
  /\ gen' = <<>>
  /\ attempt' = [attempt EXCEPT !.outcome = outcome, !.tested = tested,
                                !.passDone = passDone]

\* async function generateEpub(), up to its first suspension.  It is called
\* by a click on the button, when the button is enabled; a call without file
\* or without pattern, which the button does not make and the first test of
\* the function is there for, is kept.  The button is disabled while isGenerating is set, so one call is
\* in flight at a time.  The first next() of the for-await loop runs the
\* generator into its first chunk read, or to its end when the file is
\* empty, or into the RangeError of the decoder.
generateEpub ==
  /\ Quiescent
  /\ gen = <<>>
  /\ ButtonEnabled \/ PastTheButton
  /\ genCalls < MaxCalls
  /\ genCalls' = genCalls + 1
  /\ IF ~ShouldGenerate
     THEN /\ attempt' = NewAttempt("noop")
          /\ UNCHANGED <<isGenerating, gen, alerts>>
     ELSE IF ~TextDecoderAccepts(encoding)
     THEN /\ alerts' = Append(alerts, "failed")
          /\ isGenerating' = FALSE
          /\ gen' = <<>>
          /\ attempt' = NewAttempt("failed")
     ELSE IF FileSize(file) = 0
     THEN /\ alerts' = Append(alerts, "empty")
          /\ isGenerating' = FALSE
          /\ gen' = <<>>
          /\ attempt' = [NewAttempt("empty") EXCEPT !.passDone = TRUE]
     ELSE /\ isGenerating' = TRUE
          /\ gen' = [stage |-> "read", reader |-> NewReader(file, encoding),
                     chapters |-> <<>>, cur |-> <<>>]
          /\ attempt' = NewAttempt("running")
          /\ alerts' = alerts
  /\ UNCHANGED <<file, previewLines, regexText, matchedChapters, encoding,
                 bookTitleText, previews, timers, picks, lastPick>>
  /\ UNCHANGED <<segVars, rdVars, detVars, pkVars>>

\* A chunk read of the generation pass has ended: the generator decodes the
\* chunk and yields its lines to the loop of generateEpub, then reads the
\* next chunk, or yields what is left in the buffer and ends; after the loop
\* the last chapter is pushed, and either the list is empty (alert, return)
\* or the packaging starts: new JSZip(), title, author.
GenChunk ==
  /\ gen # <<>>
  /\ gen.stage = "read"
  /\ LET c == ReaderChunk(gen.reader)
         more == ReaderMore(c.reader)
         ls == c.lines \o (IF more THEN <<>> ELSE ReaderTail(c.reader))
         st == SegmentLines([chapters |-> gen.chapters, cur |-> gen.cur],
                            ls, regex)
         chs == PushIfNonEmpty(st.chapters, st.cur)
         tested == attempt.tested
                     \o [k \in 1..Len(ls) |-> [line |-> ls[k], rx |-> regex]]
     IN IF more
        THEN /\ gen' = [gen EXCEPT !.reader = c.reader,
                                   !.chapters = st.chapters, !.cur = st.cur]
             /\ attempt' = [attempt EXCEPT !.tested = tested]
             /\ UNCHANGED <<isGenerating, alerts>>
             /\ UNCHANGED pkVars
        ELSE IF IsEmptyResult(chs)
        THEN /\ EndAttempt("empty", tested, TRUE)
             /\ UNCHANGED pkVars
        ELSE /\ gen' = [stage |-> "pack"]
             /\ attempt' = [attempt EXCEPT !.tested = tested,
                                           !.passDone = TRUE]
             /\ zip' = <<>>
             /\ pkChapters' = chs
             /\ bookTitle' = bookTitleText
             /\ fileName' = file.name
             /\ pkI' = 0
             /\ pkPc' = "mimetype"
             /\ UNCHANGED <<isGenerating, alerts, bookAuthor, clock, downloads>>
  /\ UNCHANGED <<file, previewLines, regexText, matchedChapters, encoding,
                 bookTitleText, previews, timers, picks, lastPick, genCalls>>
  /\ UNCHANGED <<segVars, rdVars, detVars>>

\* await chunk.arrayBuffer() of the generation pass rejects (the file can no
\* longer be read): the catch block, then the finally block.
GenReadFail ==
  /\ gen # <<>>
  /\ gen.stage = "read"
  /\ EndAttempt("failed", attempt.tested, FALSE)
  /\ UNCHANGED <<file, previewLines, regexText, matchedChapters, encoding,
                 bookTitleText, previews, timers, picks, lastPick, genCalls>>
  /\ UNCHANGED <<segVars, rdVars, detVars, pkVars>>

\* await zip.generateAsync() rejects: the catch block, then the finally
\* block.
GenZipFail ==
  /\ gen # <<>>
  /\ gen.stage = "pack"
  /\ pkPc = "chapters"
  /\ pkI = Len(pkChapters)
  /\ pkPc' = "idle"
  /\ EndAttempt("failed", attempt.tested, TRUE)
  /\ UNCHANGED <<pkChapters, bookTitle, bookAuthor, fileName, clock, zip, pkI,
                 downloads>>
  /\ UNCHANGED <<file, previewLines, regexText, matchedChapters, encoding,
                 bookTitleText, previews, timers, picks, lastPick, genCalls>>
  /\ UNCHANGED <<segVars, rdVars, detVars>>

\* After a.click(): URL.revokeObjectURL, the alert of the success, and the
\* finally block.
GenFinish ==
  /\ gen # <<>>
  /\ gen.stage = "pack"
  /\ pkPc = "done"
  /\ pkPc' = "idle"
  /\ EndAttempt("success", attempt.tested, TRUE)
  /\ UNCHANGED <<pkChapters, bookTitle, bookAuthor, fileName, clock, zip, pkI,
                 downloads>>
  /\ UNCHANGED <<file, previewLines, regexText, matchedChapters, encoding,
                 bookTitleText, previews, timers, picks, lastPick, genCalls>>
  /\ UNCHANGED <<segVars, rdVars, detVars>>

\* The texts the user types into the pattern input: none, an invalid
\* pattern, and a pattern.
RegexTexts == {"", "(", "m"}

\* v-model="regexText" on the pattern input (App.vue 478-484), shown once a
\* file is chosen, with the watcher.
EditRegex ==
  /\ Quiescent
  /\ file # <<>>
  /\ \E t \in RegexTexts \ {regexText} :
       /\ regexText' = t
       /\ matchedChapters' = WatchAfterEdit(t)
  /\ UNCHANGED <<file, previewLines, isGenerating, encoding, bookTitleText,
                 previews, timers, gen, alerts, picks, lastPick, genCalls,
                 attempt>>
  /\ UNCHANGED <<segVars, rdVars, detVars, pkVars>>

\* The encodings the user chooses in the <select>.
AppEncodings == {"utf-8", "utf-16le"}

\* v-model="encoding" and @change="onEncodingChange" on the <select>
\* (App.vue 452-465), shown once a file is chosen: loadFilePreview(file.value,
\* encoding.value) up to its first suspension.
onEncodingChange ==
  /\ Quiescent
  /\ file # <<>>
  /\ Len(previews) < MaxPreviews
  /\ \E e \in AppEncodings \ {encoding} :
       /\ encoding' = e
       /\ previews' = Append(previews, StartedPass("encoding", file, e))
  /\ previewLines' = <<>>
  /\ matchedChapters' = <<>>
  /\ UNCHANGED <<file, regexText, isGenerating, bookTitleText, timers, gen,
                 alerts, picks, lastPick, genCalls, attempt>>
  /\ UNCHANGED <<segVars, rdVars, detVars, pkVars>>

\* The files of the specification of the component: a heading and a line in
\* two chunks; a heading without a line, in utf-16le behind its byte order
\* mark, in three chunks.
SmallFiles ==
  { [name |-> <<"n", ".", "t">>,
     runs |-> << [unit |-> <<109, 10, 97, 10>>, n |-> 1] >>],
    [name |-> <<"u">>,
     runs |-> << [unit |-> <<255, 254, 109, 0, 10, 0>>, n |-> 1] >>] }

\* onFileChange with the files of the component.
onFileChange == OnFileChangeOf(SmallFiles, MaxPreviews)

AppNext ==
  \/ onFileChange \/ DetectDone \/ PreviewChunk \/ TimerFire \/ EditRegex
  \/ onEncodingChange \/ generateEpub \/ GenChunk \/ GenReadFail
  \/ PkMimetype \/ PkContainer \/ PkOpf \/ PkNcx \/ PkStyle \/ PkChapter
  \/ PkDownload \/ GenZipFail \/ GenFinish

\* ------------------------------------------------ preview: properties ----

\* C19: a preview pass is capped at 200 non-blank lines: once the 200th
\* non-blank line has been stored in the preview, the pass pulls no further
\* line from the decoder (it makes no further next() call) and causes no
\* further chunk read.
C19_PreviewStopsAtCap ==
  \A k \in 1..Len(previews) :
    previews[k].count >= 200 =>
      /\ previews[k].pulls = previews[k].capPulls
      /\ previews[k].reads = previews[k].capReads

\* The second half of C19 alone: no further chunk read.
C19_NoReadAfterCap ==
  \A k \in 1..Len(previews) :
    previews[k].count >= 200 => previews[k].reads = previews[k].capReads

\* What does hold of the cap: the preview of a single pass never holds more
\* than 200 non-blank lines, and after the 200th the pass makes exactly one
\* more next() call.
C19_AtMostOnePullAfterCap ==
  \A k \in 1..Len(previews) :
    /\ previews[k].count <= 200
    /\ previews[k].count = 200 =>
         previews[k].pulls = previews[k].capPulls + 1

\* C20: onFileChange accepts a file only if its size is strictly below
\* 50 * 1048576 bytes; at a change event with a file of that size or larger,
\* or with no file, the current file, the title, the encoding, the preview
\* lines and the matched chapters stay as they are and no detection or
\* preview pass starts; a smaller file becomes the current file and its
\* detection starts.
C20_Admission ==
  [][picks' # picks =>
       IF lastPick' # <<>> /\ FileSize(lastPick') < 52428800
       THEN /\ file' = lastPick'
            /\ Len(previews') = Len(previews) + 1
            /\ previews'[Len(previews')].stage = "detect"
            /\ previews'[Len(previews')].file = lastPick'
       ELSE UNCHANGED <<file, bookTitleText, encoding, previewLines,
                        matchedChapters, previews, timers>>]_vars

\* With the file of 52428799 bytes loaded and previewed, a change event with
\* the file of exactly 52428800 bytes has been refused.
C20_Witness ==
  /\ picks = 2
  /\ lastPick # <<>>
  /\ FileSize(lastPick) = 52428800
  /\ file # <<>>
  /\ FileSize(file) = 52428799
  /\ Len(previewLines) > 0
  /\ Len(previews) = 1

\* --------------------------------------------- generation: properties ----

\* The chapter list of the latest generateEpub call as its loop has built it
\* from the lines it has tested, each against the pattern it was tested with.
RECURSIVE TestedFrom(_, _)
TestedFrom(st, k) ==
  IF k > Len(attempt.tested) THEN st
  ELSE TestedFrom(SegmentLines(st, <<attempt.tested[k].line>>,
                               attempt.tested[k].rx), k + 1)

TestedChapters ==
  LET st == TestedFrom([chapters |-> <<>>, cur |-> <<>>], 1)
  IN PushIfNonEmpty(st.chapters, st.cur)

\* C14: when the segmentation of the whole file yields zero chapters the
\* generation attempt ends as an empty result and not through the error path:
\* it has added no archive entry and no download, its only alert is the one
\* of the empty result (the catch block has not run), and isGenerating is
\* false once it has ended; and an attempt ends so exactly when its line pass
\* has finished with zero chapters.
C14_EmptyResult ==
  attempt # <<>> =>
    /\ (attempt.passDone /\ Len(TestedChapters) = 0) =>
         attempt.outcome = "empty"
    /\ attempt.outcome = "empty" =>
         /\ attempt.passDone
         /\ Len(TestedChapters) = 0
         /\ zip = attempt.zip0
         /\ Len(downloads) = attempt.downloads0
         /\ alerts = Append(attempt.alerts0, "empty")
         /\ ~isGenerating
         /\ gen = <<>>
         /\ pkPc = "idle"

\* An attempt on the file that holds a heading and nothing else has read the
\* file and ended as an empty result.
C14_Witness ==
  /\ attempt # <<>>
  /\ attempt.outcome = "empty"
  /\ FileSize(attempt.file) > 0
  /\ Len(attempt.tested) > 0
  /\ ~isGenerating
  /\ Len(downloads) = 0

\* The names an archive of n chapters holds.
CompleteNames(n) ==
  {"mimetype", "META-INF/container.xml", "OEBPS/content.opf",
   "OEBPS/toc.ncx", "OEBPS/style.css"}
    \cup {"OEBPS/chapter" \o ToString(i) \o ".xhtml" : i \in 0..n - 1}

\* C15: a generation attempt that fails at any step (decoder construction,
\* chunk read, archive construction) triggers no download and ends with
\* isGenerating false; an attempt triggers at most one download, and only
\* after its line pass has finished and the archive holds every entry of
\* every chapter of that pass.
C15_NoPartialDownload ==
  attempt # <<>> =>
    LET new == Len(downloads) - attempt.downloads0
    IN /\ new \in {0, 1}
       /\ attempt.outcome = "failed" =>
            /\ new = 0
            /\ ~isGenerating
            /\ gen = <<>>
            /\ alerts = Append(attempt.alerts0, "failed")
       /\ attempt.outcome \in {"noop", "empty"} => new = 0
       /\ new = 1 =>
            LET d == downloads[Len(downloads)]
            IN /\ attempt.passDone
               /\ attempt.outcome \in {"running", "success"}
               /\ pkChapters = TestedChapters
               /\ Len(d.entries) = Len(pkChapters) + 5
               /\ {d.entries[k].name : k \in 1..Len(d.entries)} =
                    CompleteNames(Len(pkChapters))
               /\ Len(zip) = Len(d.entries)
               /\ \A k \in 1..Len(zip) :
                    /\ d.entries[k].name = zip[k].name
                    /\ d.entries[k].data = zip[k].data

\* An attempt has failed in zip.generateAsync() with every entry added to
\* the archive: nothing was downloaded and isGenerating is false again.
C15_Witness ==
  /\ attempt # <<>>
  /\ attempt.outcome = "failed"
  /\ attempt.passDone
  /\ Len(zip) = Len(pkChapters) + 5
  /\ Len(pkChapters) > 0
  /\ Len(downloads) = 0
  /\ ~isGenerating

\* The pattern text is empty or is not a valid regular expression.
PatternAbsent == regexText = "" \/ NewRegExp(regexText) = "SyntaxError"

\* C16: when the pattern text is empty or is not a valid regular expression
\* the compiled pattern is absent, no error gets out of compiling it and the
\* list of matched chapters is empty; a call of generateEpub in that state
\* starts no decode pass and changes nothing: isGenerating stays false, no
\* alert, no archive entry, no download.
C16_AbsentPattern ==
  [][/\ PatternAbsent' =>
          /\ regex' = NoRegex
          /\ matchedChapters' = <<>>
     /\ regex' # "SyntaxError"
     /\ (genCalls' # genCalls /\ PatternAbsent) =>
          /\ ~isGenerating'
          /\ gen' = <<>>
          /\ attempt'.outcome = "noop"
          /\ UNCHANGED <<file, previewLines, regexText, matchedChapters,
                         isGenerating, encoding, bookTitleText, previews,
                         timers, gen, alerts>>
          /\ UNCHANGED pkVars]_vars

\* generateEpub has been called, and has returned at once, with a file
\* previewed and the invalid pattern text "(" in the input.
C16_Witness ==
  /\ attempt # <<>>
  /\ attempt.outcome = "noop"
  /\ attempt.file # <<>>
  /\ attempt.rx = NoRegex
  /\ regexText = "("
  /\ Len(previewLines) > 0
  /\ matchedChapters = <<>>
  /\ ~isGenerating
  /\ Len(downloads) = 0

\* C17: the boundary pattern is compiled once per segmentation pass: every
\* line of one generation pass is tested against the same pattern, the one
\* in force when the pass started, even if the pattern text is edited,
\* emptied or made invalid while the pass is suspended on a chunk read.
C17_SamePattern ==
  attempt # <<>> =>
    \A i \in 1..Len(attempt.tested) : attempt.tested[i].rx = attempt.rx

\* What does hold of the pattern of a pass: the lines that one chunk read
\* yields are tested against one pattern, the one regex.value holds when that
\* read ends, and the first test of the call (App.vue 176) saw a pattern.
C17_PatternOfTheChunk ==
  [][(attempt # <<>> /\ attempt' # <<>>
        /\ Len(attempt'.tested) > Len(attempt.tested)) =>
       /\ attempt.rx # NoRegex
       /\ \A i \in Len(attempt.tested) + 1..Len(attempt'.tested) :
            attempt'.tested[i].rx = regex]_vars

\* The lines of file f under encoding enc, the file decoded in one piece:
\* split at "\n", a "\r" at the end of a line removed, and no line after the
\* last "\n" when nothing follows it.
FileLines(f, enc) ==
  LET d == DecodeBytes(enc, FileSlice(f, 0, FileSize(f)))
      parts == SplitLF(DropBom(enc, FALSE, d.text))
      tail == IF Last(parts) # <<>> THEN <<Last(parts)>> ELSE <<>>
  IN TextLines(StripEach(Front(parts) \o tail))

IsPrefix(s, t) == Len(s) <= Len(t) /\ s = SubSeq(t, 1, Len(s))

\* The lines the generation pass has consumed.
TestedLines == [i \in 1..Len(attempt.tested) |-> attempt.tested[i].line]

\* C18: each preview pass and each generation pass has a decoder, a text
\* buffer and a read offset of its own, started at byte 0: the lines a pass
\* has received are the first lines of its file under its encoding and its
\* offset is the end of the chunks it has read itself; the lines a finished
\* generation pass has consumed are all the lines of the file, whatever
\* preview pass ran before it or while it was suspended.
C18_OwnDecoder ==
  /\ \A k \in 1..Len(previews) :
       previews[k].stage \in {"read", "done"} =>
         LET p == previews[k]
         IN /\ IsPrefix(p.got, FileLines(p.file, p.reader.enc))
            /\ p.reader.file = p.file
            /\ p.reader.offset =
                 PassChunkSize * (IF p.stage = "read" THEN p.reads - 1
                                  ELSE p.reads)
  /\ (attempt # <<>> /\ attempt.outcome # "noop"
        /\ ~TextDecoderAccepts(attempt.enc)) => TestedLines = <<>>
  /\ (attempt # <<>> /\ attempt.outcome # "noop"
        /\ TextDecoderAccepts(attempt.enc)) =>
       /\ IsPrefix(TestedLines, FileLines(attempt.file, attempt.enc))
       /\ attempt.passDone =>
            TestedLines = FileLines(attempt.file, attempt.enc)
       /\ (gen # <<>> /\ gen.stage = "read") =>
            /\ gen.reader.file = attempt.file
            /\ gen.reader.enc = attempt.enc
            /\ gen.reader.offset < FileSize(attempt.file)
            /\ gen.reader.offset % PassChunkSize = 0

\* A generation pass over the file of two lines has just finished with both
\* lines, and a preview pass under another encoding, started by a change of
\* the encoding while the generation was suspended on a chunk read, is still
\* reading.
C18_Witness ==
  /\ attempt # <<>>
  /\ attempt.passDone
  /\ pkPc = "mimetype"
  /\ Len(attempt.tested) = 2
  /\ TestedLines = FileLines(attempt.file, attempt.enc)
  /\ encoding # attempt.enc
  /\ Len(previews) = 2
  /\ previews[1].stage = "done"
  /\ previews[2].origin = "encoding"
  /\ previews[2].stage = "read"
  /\ previews[2].reader.offset > 0

\* ------------------------------------------------ session: properties ----

\* Every preview pass started so far has ended.
PassesOver ==
  \A k \in 1..Len(previews) : previews[k].stage \in {"done", "error"}

\* C23: after the encoding has been overridden a fresh preview pass runs, and
\* once it has finished the list of matched chapters holds exactly the
\* 0-based indexes and the trimmed texts of the preview lines that match the
\* current pattern, with no further edit of the pattern.
C23_MatchedAfterOverride ==
  (/\ Len(previews) > 0
   /\ previews[Len(previews)].origin = "encoding"
   /\ previews[Len(previews)].stage = "done"
   /\ PassesOver) =>
    matchedChapters = Watch(previewLines, regex)

\* C23 for an override made after the detection of the file, whose preview
\* holds the lines of the file under the chosen encoding and nothing else.
\* It fails as well.
C23_OverrideAlone ==
  (/\ Len(previews) = 2
   /\ previews[2].origin = "encoding"
   /\ previews[2].stage = "done"
   /\ PassesOver
   /\ timers = 0
   /\ encoding # detectEncoding(file)
   /\ previewLines = FileLines(file, encoding)) =>
    matchedChapters = Watch(previewLines, regex)

\* What does hold of the list during a preview pass: the start of the pass
\* empties it and the lines the pass pushes leave it as it is; only a change
\* of the pattern fills it.
C23_PushesNotWatched ==
  [][/\ (Len(previews') > Len(previews)
           /\ previews'[Len(previews')].origin = "encoding") =>
          matchedChapters' = <<>>
     /\ Len(previewLines') > Len(previewLines) =>
          matchedChapters' = matchedChapters
     /\ (regex' = regex /\ matchedChapters' # matchedChapters) =>
          matchedChapters' = <<>>]_vars

\* The number of the lines of ls that are not blank.
NonBlankCount(ls) == Cardinality({i \in 1..Len(ls) : Len(Trim(ls[i])) > 0})

\* The lines of ls up to its 200th line that is not blank.
CapPrefix(ls) ==
  LET ks == {k \in 1..Len(ls) : NonBlankCount(SubSeq(ls, 1, k)) >= PreviewCap}
  IN IF ks = {} THEN ls ELSE SubSeq(ls, 1, Min(ks))

\* The lines of the file and encoding of preview pass p alone.
PassLines(p) == CapPrefix(FileLines(p.file, p.reader.enc))

\* C24: when preview passes overlap, then once all of them have finished the
\* preview is the prefix, up to its 200th non-blank line, of the lines of the
\* file and encoding requested last, alone: no line of an earlier pass is
\* mixed in, and the preview never has more than 200 non-blank lines.
C24_LatestPreviewAlone ==
  /\ NonBlankCount(previewLines) <= 200
  /\ (/\ Len(previews) > 0
      /\ PassesOver
      /\ previews[Len(previews)].stage = "done") =>
       previewLines = PassLines(previews[Len(previews)])

\* What does hold: the preview of a pass that had no other pass beside it is
\* the prefix of the lines of its file and encoding.
C24_SinglePassAlone ==
  (Len(previews) = 1 /\ previews[1].stage = "done") =>
    previewLines = PassLines(previews[1])

\* The user has chosen encoding enc in the select while f was the file.
ChosenFor(f, enc) ==
  \E k \in 1..Len(previews) :
    /\ previews[k].origin = "encoding"
    /\ previews[k].file = f
    /\ previews[k].reader.enc = enc

\* The detection of the file chosen last has not ended.
DetectionPending ==
  \E k \in 1..Len(previews) :
    /\ previews[k].stage = "detect"
    /\ \A j \in k + 1..Len(previews) : previews[j].origin # "file"

\* C25: every generation pass decodes the current file with the encoding that
\* was detected for that file or that the user chose for that file:
\* generateEpub never runs on a newly chosen file with the encoding left over
\* from the file before while the detection of the new file is pending.
C25_EncodingOfTheFile ==
  [][(genCalls' # genCalls /\ attempt'.outcome # "noop") =>
       \/ encoding = detectEncoding(file)
       \/ ChosenFor(file, encoding)]_vars

\* The same for the calls made while no detection is pending.  It fails as
\* well: of two detections in flight the one of the earlier file can end
\* last and leave its encoding.
C25_AfterDetection ==
  [][(genCalls' # genCalls /\ attempt'.outcome # "noop"
        /\ ~DetectionPending) =>
       \/ encoding = detectEncoding(file)
       \/ ChosenFor(file, encoding)]_vars

\* ============================================================================
\* Specifications
\* ============================================================================

InitSeg == SegInit /\ RdIdle /\ DetIdle /\ PkIdle /\ AppInit

SpecSeg == InitSeg /\ [][SegNext]_vars

InitRead == RdInit /\ SegIdle /\ DetIdle /\ PkIdle /\ AppInit

SpecRead == InitRead /\ [][RdNext]_vars

InitDetect == DetInit /\ SegIdle /\ RdIdle /\ PkIdle /\ AppInit

SpecDetect == InitDetect /\ [][DetNext]_vars

InitPack == PkInit /\ SegIdle /\ RdIdle /\ DetIdle /\ AppInit

SpecPack == InitPack /\ [][PkNext]_vars

InitPreview == AppInit /\ SegIdle /\ RdIdle /\ DetIdle /\ PkIdle

SpecPreview == InitPreview /\ [][PreviewNext]_vars

InitApp == AppInit /\ SegIdle /\ RdIdle /\ DetIdle /\ PkIdle

SpecApp == InitApp /\ [][AppNext]_vars

====
